---- MODULE Spec2Model ----
(***************************************************************************)
(* Model of the client-side real-time state core of the DEX web UI:        *)
(* DexStateStore (apps/web-ui/src/state/store.ts) and its pure reducers    *)
(* (apps/web-ui/src/state/reducers.ts).                                    *)
(*                                                                         *)
(* Representation.                                                         *)
(*  - A sequence number is a canonical decimal string in the code; it is   *)
(*    represented by the natural number BigInt() parses it to.             *)
(*  - A decimal string (price, quantity) is a pair <<v, f>>: v is the      *)
(*    value parseFloat() gives, f tells apart different spellings of the   *)
(*    same value ("1", "1.0"); string equality is equality of the pair.    *)
(*  - A JS Map / Record is a function whose DOMAIN is the set of keys; a   *)
(*    Map whose insertion order is observed is a sequence of pairs.        *)
(*  - A nullable value is a sequence of length 0 or 1.                     *)
(***************************************************************************)
EXTENDS Integers, Sequences, FiniteSets, TLC

(***************************************************************************)
(* Bounds of the model                                                     *)
(***************************************************************************)
\* sequence numbers of market_data events are drawn from 1..MaxSeq (and two
\* beyond the exact range of Number(), see HugeSeq)
MaxSeq == 3
\* sequence numbers of trades and account events are drawn from 1..MaxSideSeq
MaxSideSeq == 2
\* number of dispatch calls in a behaviour
MaxSteps == 4
\* listener ids are drawn from 1..MaxListeners
MaxListeners == 1
\* WebSocket objects the client constructs in a behaviour
MaxSockets == 2
\* frames the server sends unasked in a behaviour (pings and events)
MaxFrames == 1
\* calls of the application (connect, disconnect, subscribe, unsubscribe)
MaxCalls == 3
\* connections that are lost (closed by the server or the network)
MaxCloses == 1
\* deltas after a snapshot that are compared as a replay batch and as live frames
MaxReplay == 2

(***************************************************************************)
(* Program constants (scaled down so that the caps are reached)            *)
(***************************************************************************)
\* store.ts: private readonly MAX_BUFFER_SIZE = 10_000
MAX_BUFFER_SIZE == 2
\* reducers.ts: export const MAX_SEEN_IDS = 10_000
MAX_SEEN_IDS == 2
\* reducers.ts: const MAX_TRADES_PER_SYMBOL = 500
MAX_TRADES_PER_SYMBOL == 2
\* significand width of the JS number type that Number() converts to (53)
MantissaBits == 2

(***************************************************************************)
(* Generic helpers                                                         *)
(***************************************************************************)
Range(s) == {s[i] : i \in 1..Len(s)}

RECURSIVE Pow2(_)
Pow2(n) == IF n = 0 THEN 1 ELSE 2 * Pow2(n - 1)

\* the binade [2^e, 2^(e+1)) that holds n >= 1
RECURSIVE Binade(_, _)
Binade(n, e) == IF n < Pow2(e + 1) THEN e ELSE Binade(n, e + 1)

\* Number(x) of a decimal integer string x: the nearest number with a
\* MantissaBits-wide significand, ties to the even significand.
NumberOf(n) ==
    IF n <= Pow2(MantissaBits) THEN n
    ELSE LET e    == Binade(n, 0)
             ulp  == Pow2(e - MantissaBits + 1)
             q    == n \div ulp
             r    == n % ulp
         IN  IF 2 * r < ulp THEN q * ulp
             ELSE IF 2 * r > ulp THEN (q + 1) * ulp
             ELSE IF q % 2 = 0 THEN q * ulp ELSE (q + 1) * ulp

\* decimal strings
Dec(v) == <<v, 0>>
DecAlt(v) == <<v, 1>>
parseFloat(d) == d[1]

(***************************************************************************)
(* reducers.ts                                                             *)
(***************************************************************************)
compareSeq(a, b) == IF a - b < 0 THEN -1 ELSE IF a - b > 0 THEN 1 ELSE 0

comparePriceAsc(a, b) == parseFloat(a) - parseFloat(b)

\* Array.prototype.sort is stable: x goes behind every element that does
\* not compare greater than it.  cmp < 0 means "a before b".
LevelCmp(a, b, sortDescending) ==
    IF sortDescending THEN 0 - comparePriceAsc(a[1], b[1])
    ELSE comparePriceAsc(a[1], b[1])

RECURSIVE InsertLevel(_, _, _)
InsertLevel(sorted, x, sortDescending) ==
    IF sorted = <<>> THEN <<x>>
    ELSE IF LevelCmp(x, sorted[Len(sorted)], sortDescending) >= 0
         THEN Append(sorted, x)
         ELSE Append(InsertLevel(SubSeq(sorted, 1, Len(sorted) - 1), x, sortDescending),
                     sorted[Len(sorted)])

RECURSIVE SortLevels(_, _)
SortLevels(levels, sortDescending) ==
    IF levels = <<>> THEN <<>>
    ELSE InsertLevel(SortLevels(SubSeq(levels, 1, Len(levels) - 1), sortDescending),
                     levels[Len(levels)], sortDescending)

\* Map.set: an existing key keeps its place, a new key goes last
MapSet(m, k, v) ==
    IF \E i \in 1..Len(m) : m[i][1] = k
    THEN [i \in 1..Len(m) |-> IF m[i][1] = k THEN <<k, v>> ELSE m[i]]
    ELSE Append(m, <<k, v>>)

MapDelete(m, k) == SelectSeq(m, LAMBDA e : e[1] # k)

RECURSIVE MapFromLevels(_)
MapFromLevels(levels) ==
    IF levels = <<>> THEN <<>>
    ELSE MapSet(MapFromLevels(SubSeq(levels, 1, Len(levels) - 1)),
                levels[Len(levels)][1], levels[Len(levels)][2])

RECURSIVE ApplyUpdates(_, _)
ApplyUpdates(m, updates) ==
    IF updates = <<>> THEN m
    ELSE LET u == updates[1]
         IN  ApplyUpdates(IF u[2] = Dec(0) THEN MapDelete(m, u[1])
                          ELSE MapSet(m, u[1], u[2]),
                          Tail(updates))

mergeLevels(existing, updates, sortDescending) ==
    SortLevels(ApplyUpdates(MapFromLevels(existing), updates), sortDescending)

\* Set.has on the insertion-ordered seenIds
SeenHas(seenIds, id) == id \in Range(seenIds)

\* mutant: the sequence check of the dedup guard is missing
isDuplicate_IdOnly(event, meta) ==
    SeenHas(meta.seenIds, event.event_id)

\* mutant: an event at lastSeq itself is not taken for a duplicate
isDuplicate_StrictlyBelow(event, meta) ==
    \/ SeenHas(meta.seenIds, event.event_id)
    \/ event.event_type # "snapshot" /\ compareSeq(event.sequence, meta.lastSeq) < 0

isDuplicate(event, meta) ==
    \/ SeenHas(meta.seenIds, event.event_id)
    \/ event.event_type # "snapshot" /\ compareSeq(event.sequence, meta.lastSeq) <= 0

\* mutant: the set never evicts
recordEvent_NoEviction(event, meta) ==
    [lastSeq |-> IF compareSeq(event.sequence, meta.lastSeq) > 0
                 THEN event.sequence ELSE meta.lastSeq,
     seenIds |-> IF SeenHas(meta.seenIds, event.event_id) THEN meta.seenIds
                 ELSE Append(meta.seenIds, event.event_id)]

recordEvent(event, meta) ==
    LET added   == IF SeenHas(meta.seenIds, event.event_id) THEN meta.seenIds
                   ELSE Append(meta.seenIds, event.event_id)
        newSeen == IF Len(added) > MAX_SEEN_IDS
                   THEN SubSeq(added, Len(added) - MAX_SEEN_IDS + 1, Len(added))
                   ELSE added
        newSeq  == IF compareSeq(event.sequence, meta.lastSeq) > 0
                   THEN event.sequence ELSE meta.lastSeq
    IN  [lastSeq |-> newSeq, seenIds |-> newSeen]

applyOrderbookSnapshot(current, event) ==
    [symbol  |-> event.payload.symbol,
     bids    |-> SortLevels(event.payload.bids, TRUE),
     asks    |-> SortLevels(event.payload.asks, FALSE),
     lastSeq |-> event.sequence]

applyOrderbookDelta(current, event) ==
    [current EXCEPT
        !.bids = IF "bids" \in DOMAIN event.payload
                 THEN mergeLevels(current.bids, event.payload.bids, TRUE) ELSE @,
        !.asks = IF "asks" \in DOMAIN event.payload
                 THEN mergeLevels(current.asks, event.payload.asks, FALSE) ELSE @,
        !.lastSeq = event.sequence]

TickerFields == {"last_price", "volume_24h", "high_24h", "low_24h", "mark_price"}

freshTicker(event) ==
    LET p == event.payload
        F(f) == IF f \in DOMAIN p THEN p[f] ELSE Dec(0)
    IN  [symbol     |-> p.symbol,
         last_price |-> F("last_price"),
         volume_24h |-> F("volume_24h"),
         high_24h   |-> F("high_24h"),
         low_24h    |-> F("low_24h"),
         mark_price |-> F("mark_price"),
         lastSeq    |-> event.sequence]

\* current is a nullable ticker
applyTickerDelta(current, event) ==
    IF current = <<>> THEN freshTicker(event)
    ELSE LET p == event.payload
             c == current[1]
             F(f) == IF f \in DOMAIN p THEN p[f] ELSE c[f]
         IN  [symbol     |-> c.symbol,
              last_price |-> F("last_price"),
              volume_24h |-> F("volume_24h"),
              high_24h   |-> F("high_24h"),
              low_24h    |-> F("low_24h"),
              mark_price |-> F("mark_price"),
              lastSeq    |-> event.sequence]

applyTrade(current, event) ==
    LET record == [event_id  |-> event.event_id,
                   symbol    |-> event.payload.symbol,
                   price     |-> event.payload.price,
                   quantity  |-> event.payload.quantity,
                   side      |-> event.payload.side,
                   timestamp |-> event.timestamp]
        next   == Append(current, record)
    IN  IF Len(next) > MAX_TRADES_PER_SYMBOL
        THEN SubSeq(next, Len(next) - MAX_TRADES_PER_SYMBOL + 1, Len(next))
        ELSE next

\* orders[o.order_id] = o, in array order: a later order of the same id wins
RECURSIVE OrdersById(_)
OrdersById(orders) ==
    IF orders = <<>> THEN <<>>
    ELSE LET o    == orders[Len(orders)]
             rest == OrdersById(SubSeq(orders, 1, Len(orders) - 1))
         IN  [k \in DOMAIN rest \cup {o.order_id} |->
                 IF k = o.order_id THEN o ELSE rest[k]]

applyAccountSnapshot(current, event) ==
    LET p == event.payload
    IN  [account_id |-> p.account_id,
         balances   |-> p.balances,
         orders     |-> IF "orders" \in DOMAIN p THEN OrdersById(p.orders) ELSE <<>>,
         lastSeq    |-> event.sequence]

applyAccountDelta(current, event) ==
    LET p == event.payload
        newBalances ==
            IF "balances" \in DOMAIN p
            THEN [k \in DOMAIN current.balances \cup DOMAIN p.balances |->
                     IF k \in DOMAIN p.balances THEN p.balances[k]
                     ELSE current.balances[k]]
            ELSE current.balances
        newOrders ==
            IF "order" \in DOMAIN p
            THEN [k \in DOMAIN current.orders \cup {p.order.order_id} |->
                     IF k = p.order.order_id THEN p.order ELSE current.orders[k]]
            ELSE current.orders
    IN  [current EXCEPT !.balances = newBalances, !.orders = newOrders,
                        !.lastSeq = event.sequence]

(***************************************************************************)
(* store.ts: DexStateStore                                                 *)
(***************************************************************************)
VARIABLES
    state,              \* StoreState: orderbooks, tickers, trades, account, metrics
    seqMeta,            \* Map domain key -> SeqMeta
    deltaBuffers,       \* Map domain key -> buffered deltas
    listeners,          \* state-change listeners, in registration order
    snapshotListeners,  \* snapshot-request listeners, in registration order
    steps,              \* number of dispatch calls made
    last,               \* the last dispatch call: its event, the store before it,
                        \* and what the call emitted
    \* ws-client.ts: DexWebSocketClient and what it runs on
    client,             \* the fields of the client object
    sockets,            \* every WebSocket the client constructed, oldest first
    promises,           \* the promises connect() and subscribe() returned
    tokens,             \* _connect calls waiting for getToken()
    timers,             \* reconnect timers set and not yet fired
    resubs,             \* _resubscribeAll calls waiting for an acknowledgement
    wire                \* frames received and calls made so far

storeVars == <<state, seqMeta, deltaBuffers, listeners, snapshotListeners, steps, last>>
wsVars == <<client, sockets, promises, tokens, timers, resubs, wire>>
vars == <<state, seqMeta, deltaBuffers, listeners, snapshotListeners, steps, last,
          client, sockets, promises, tokens, timers, resubs, wire>>

\* JS Map / Record operations
MapHas(m, k) == k \in DOMAIN m
MapGet(m, k) == IF k \in DOMAIN m THEN <<m[k]>> ELSE <<>>
MapPut(m, k, v) == [x \in DOMAIN m \cup {k} |-> IF x = k THEN v ELSE m[x]]
MapRemove(m, k) == IF DOMAIN m \subseteq {k} THEN <<>> ELSE [x \in DOMAIN m \ {k} |-> m[x]]

\* what one dispatch call emits, in call order
NoTrace == [requests |-> <<>>, notified |-> <<>>, applied |-> <<>>, hung |-> FALSE,
            threw |-> FALSE, seen |-> <<>>]

\* the store object the methods work on: S.state, S.seqMeta, S.deltaBuffers,
\* the two listener lists and the trace S.out of the running call
\* payload: null
Null == [null |-> TRUE]

Store == [state |-> state, seqMeta |-> seqMeta, deltaBuffers |-> deltaBuffers,
          listeners |-> listeners, snapshotListeners |-> snapshotListeners,
          out |-> NoTrace]

\* mutant: every event is tracked under its source alone
domainKey_SourceOnly(event) == event.source

domainKey(event) ==
    LET symbol == IF "symbol" \in DOMAIN event.payload THEN event.payload.symbol ELSE ""
    IN  IF symbol # "" THEN event.source \o "::" \o symbol ELSE event.source

FreshMeta == [lastSeq |-> 0, seenIds |-> <<>>]

\* getSeqMeta: the value returned, and the store with a fresh entry set
MetaOf(S, key) == IF MapHas(S.seqMeta, key) THEN S.seqMeta[key] ELSE FreshMeta
getSeqMeta(S, key) ==
    IF MapHas(S.seqMeta, key) THEN S
    ELSE [S EXCEPT !.seqMeta = MapPut(@, key, FreshMeta)]

\* each listener is called with this.state; seen keeps what the store held at
\* the time of the call
notifyListeners(S) ==
    [S EXCEPT !.out.notified = @ \o S.listeners,
              !.out.seen = @ \o [i \in 1..Len(S.listeners) |->
                                    [state |-> S.state, seqMeta |-> S.seqMeta,
                                     deltaBuffers |-> S.deltaBuffers]]]

dispatchOrderbookSnapshot(S, event) ==
    LET symbol == event.payload.symbol
    IN  [S EXCEPT !.state.orderbooks =
            MapPut(@, symbol, applyOrderbookSnapshot(MapGet(@, symbol), event))]

dispatchMarketDataDelta(S, event) ==
    LET payload == event.payload
        symbol  == payload.symbol
        S1 == IF ("bids" \in DOMAIN payload \/ "asks" \in DOMAIN payload)
                 /\ MapHas(S.state.orderbooks, symbol)
              THEN [S EXCEPT !.state.orderbooks =
                       MapPut(@, symbol, applyOrderbookDelta(@[symbol], event))]
              ELSE S
    IN  IF TickerFields \cap DOMAIN payload # {}
        THEN [S1 EXCEPT !.state.tickers =
                 MapPut(@, symbol, applyTickerDelta(MapGet(@, symbol), event))]
        ELSE S1

dispatchTrade(S, event) ==
    LET symbol  == event.payload.symbol
        current == IF MapHas(S.state.trades, symbol) THEN S.state.trades[symbol] ELSE <<>>
    IN  [S EXCEPT !.state.trades = MapPut(@, symbol, applyTrade(current, event))]

dispatchAccountSnapshot(S, event) ==
    [S EXCEPT !.state.account = <<applyAccountSnapshot(@, event)>>]

dispatchAccountDelta(S, event) ==
    IF S.state.account # <<>>
    THEN [S EXCEPT !.state.account = <<applyAccountDelta(@[1], event)>>]
    ELSE S

\* the reducer behind applyEvent reads a property of a null payload or spreads
\* levels the payload does not have: a TypeError, raised before the store is
\* written
Throws(S, event) ==
    LET payload == event.payload
    IN  CASE event.source = "market_data" /\ event.event_type = "snapshot" ->
                payload = Null \/ "bids" \notin DOMAIN payload \/ "asks" \notin DOMAIN payload
          [] event.source = "market_data" /\ event.event_type = "delta" -> payload = Null
          [] event.source = "trades" -> payload = Null
          [] event.source = "account" /\ event.event_type = "snapshot" -> payload = Null
          [] event.source = "account" /\ event.event_type = "delta" ->
                S.state.account # <<>> /\ payload = Null
          [] OTHER -> FALSE

applyEvent(S, event) ==
    IF Throws(S, event) THEN [S EXCEPT !.out.threw = TRUE] ELSE
    CASE event.source = "market_data" ->
            IF event.event_type = "snapshot" THEN dispatchOrderbookSnapshot(S, event)
            ELSE IF event.event_type = "delta" THEN dispatchMarketDataDelta(S, event)
            ELSE S
      [] event.source = "trades" -> dispatchTrade(S, event)
      [] event.source = "account" ->
            IF event.event_type = "snapshot" THEN dispatchAccountSnapshot(S, event)
            ELSE IF event.event_type = "delta" THEN dispatchAccountDelta(S, event)
            ELSE S
      [] OTHER -> S

\* one entry of the trace for an event the store recorded as applied
Applied(key, event) ==
    [key |-> key, sequence |-> event.sequence, event_type |-> event.event_type,
     event_id |-> event.event_id]

triggerSnapshotRequest(S, event, sinceSeq) ==
    LET payload    == event.payload
        symbol     == IF "symbol" \in DOMAIN payload THEN payload.symbol ELSE ""
        account_id == IF "account_id" \in DOMAIN payload THEN payload.account_id ELSE ""
        params     == [k \in (IF symbol # "" THEN {"symbol"} ELSE {})
                             \cup (IF account_id # "" THEN {"account_id"} ELSE {}) |->
                          IF k = "symbol" THEN symbol ELSE account_id]
    IN  [S EXCEPT !.out.requests = @ \o
            [i \in 1..Len(S.snapshotListeners) |->
                [listener |-> S.snapshotListeners[i], channel |-> event.source,
                 params |-> params, sinceSeq |-> sinceSeq]]]

\* mutant: the overflow branch does not return, the usual request follows
bufferDelta_NoReturnOnOverflow(S, key, event) ==
    LET old    == IF MapHas(S.deltaBuffers, key) THEN S.deltaBuffers[key] ELSE <<>>
        buffer == Append(old, event)
        kept   == IF Len(buffer) > MAX_BUFFER_SIZE THEN <<>> ELSE buffer
        S1     == getSeqMeta(
                      [S EXCEPT !.deltaBuffers = MapPut(@, key, kept),
                                !.state.metrics.buffer_size_by_stream =
                                    MapPut(@, key, Len(kept))], key)
        S2     == IF Len(buffer) > MAX_BUFFER_SIZE
                  THEN triggerSnapshotRequest(S1, event, 0) ELSE S1
    IN  triggerSnapshotRequest(S2, event, NumberOf(MetaOf(S2, key).lastSeq))

bufferDelta(S, key, event) ==
    LET old    == IF MapHas(S.deltaBuffers, key) THEN S.deltaBuffers[key] ELSE <<>>
        buffer == Append(old, event)
    IN  IF Len(buffer) > MAX_BUFFER_SIZE
        THEN triggerSnapshotRequest(
                 [S EXCEPT !.deltaBuffers = MapPut(@, key, <<>>),
                           !.state.metrics.buffer_size_by_stream = MapPut(@, key, 0)],
                 event, 0)
        ELSE LET S1 == getSeqMeta(
                         [S EXCEPT !.deltaBuffers = MapPut(@, key, buffer),
                                   !.state.metrics.buffer_size_by_stream =
                                       MapPut(@, key, Len(buffer))], key)
             IN  triggerSnapshotRequest(S1, event, NumberOf(MetaOf(S1, key).lastSeq))

\* buffer.sort((a, b) => compareSeq(a.sequence, b.sequence)), stable
RECURSIVE InsertBySeq(_, _)
InsertBySeq(sorted, x) ==
    IF sorted = <<>> THEN <<x>>
    ELSE IF compareSeq(x.sequence, sorted[Len(sorted)].sequence) >= 0
         THEN Append(sorted, x)
         ELSE Append(InsertBySeq(SubSeq(sorted, 1, Len(sorted) - 1), x),
                     sorted[Len(sorted)])

\* mutant: the buffer is scanned in arrival order
SortBySeq_ArrivalOrder(buffer) == buffer

RECURSIVE SortBySeq(_)
SortBySeq(buffer) ==
    IF buffer = <<>> THEN <<>>
    ELSE InsertBySeq(SortBySeq(SubSeq(buffer, 1, Len(buffer) - 1)), buffer[Len(buffer)])

\* mutant: the flush drops buffered duplicates without counting them
RECURSIVE FlushScan_NoCount(_, _, _, _)
FlushScan_NoCount(S, key, buffer, i) ==
    IF i > Len(buffer) THEN [S |-> S, i |-> i]
    ELSE LET event == buffer[i]
             S0    == getSeqMeta(S, key)
             meta  == MetaOf(S0, key)
             cmp   == compareSeq(event.sequence, meta.lastSeq + 1)
         IN  IF isDuplicate(event, meta)
             THEN FlushScan_NoCount(S0, key, buffer, i + 1)
             ELSE IF cmp = 0
             THEN FlushScan_NoCount(
                      [applyEvent(S0, event) EXCEPT
                          !.seqMeta = MapPut(@, key, recordEvent(event, meta)),
                          !.out.applied = Append(@, Applied(key, event))],
                      key, buffer, i + 1)
             ELSE [S |-> S0, i |-> i]

\* mutant: the scan steps over an entry that leaves a gap instead of stopping
RECURSIVE FlushScan_SkipGaps(_, _, _, _)
FlushScan_SkipGaps(S, key, buffer, i) ==
    IF i > Len(buffer) THEN [S |-> S, i |-> i]
    ELSE LET event == buffer[i]
             S0    == getSeqMeta(S, key)
             meta  == MetaOf(S0, key)
             cmp   == compareSeq(event.sequence, meta.lastSeq + 1)
         IN  IF isDuplicate(event, meta)
             THEN FlushScan_SkipGaps([S0 EXCEPT !.state.metrics.events_ignored = @ + 1],
                                     key, buffer, i + 1)
             ELSE IF cmp = 0
             THEN FlushScan_SkipGaps(
                      [applyEvent(S0, event) EXCEPT
                          !.seqMeta = MapPut(@, key, recordEvent(event, meta)),
                          !.out.applied = Append(@, Applied(key, event))],
                      key, buffer, i + 1)
             ELSE FlushScan_SkipGaps(S0, key, buffer, i + 1)

\* the while loop of flushBuffer over the sorted buffer, from index i (1-based);
\* the result carries the store and the index the loop stopped at
RECURSIVE FlushScan(_, _, _, _)
FlushScan(S, key, buffer, i) ==
    IF i > Len(buffer) THEN [S |-> S, i |-> i]
    ELSE LET event == buffer[i]
             S0    == getSeqMeta(S, key)
             meta  == MetaOf(S0, key)
             cmp   == compareSeq(event.sequence, meta.lastSeq + 1)
         IN  IF isDuplicate(event, meta)
             THEN FlushScan([S0 EXCEPT !.state.metrics.events_ignored = @ + 1],
                            key, buffer, i + 1)
             ELSE IF cmp = 0
             THEN LET A == applyEvent(S0, event)
                  IN  IF A.out.threw THEN [S |-> A, i |-> i]
                      ELSE FlushScan(
                               [A EXCEPT
                                   !.seqMeta = MapPut(@, key, recordEvent(event, meta)),
                                   !.out.applied = Append(@, Applied(key, event))],
                               key, buffer, i + 1)
             ELSE IF cmp > 0 THEN [S |-> S0, i |-> i]
             \* neither branch taken: the loop would run again on the same entry
             ELSE [S |-> [S0 EXCEPT !.out.hung = TRUE], i |-> i]

\* mutant: the size metric is not refreshed after the prune
flushBuffer_StaleMetric(S, key) ==
    IF ~MapHas(S.deltaBuffers, key) \/ S.deltaBuffers[key] = <<>> THEN S
    ELSE LET buffer == SortBySeq(S.deltaBuffers[key])
             r      == FlushScan(S, key, buffer, 1)
             n      == r.i - 1
         IN  [r.S EXCEPT
                 !.deltaBuffers = MapPut(@, key, SubSeq(buffer, n + 1, Len(buffer)))]

flushBuffer(S, key) ==
    IF ~MapHas(S.deltaBuffers, key) \/ S.deltaBuffers[key] = <<>> THEN S
    ELSE LET buffer == SortBySeq(S.deltaBuffers[key])
             r      == FlushScan(S, key, buffer, 1)
             n      == r.i - 1     \* entries applied or discarded
         IN  IF r.S.out.threw
             \* the exception leaves the loop: sorted in place, nothing pruned
             THEN [r.S EXCEPT !.deltaBuffers = MapPut(@, key, buffer)]
             ELSE IF n > 0
             THEN [r.S EXCEPT
                      !.deltaBuffers = MapPut(@, key, SubSeq(buffer, n + 1, Len(buffer))),
                      !.state.metrics.buffer_size_by_stream =
                          MapPut(@, key, Len(buffer) - n)]
             ELSE [r.S EXCEPT !.deltaBuffers = MapPut(@, key, buffer)]

\* mutant: lastSeq is left to recordEvent, which never lowers it
acceptSnapshot_NoSeqReset(S0, key, event, meta) ==
    LET nextMeta == recordEvent(event, meta)
        S1 == [applyEvent(S0, event) EXCEPT
                  !.seqMeta = MapPut(@, key, nextMeta),
                  !.out.applied = Append(@, Applied(key, event))]
    IN  notifyListeners(flushBuffer(S1, key))

\* dispatch, snapshot branch: applied whatever its sequence and id
acceptSnapshot(S0, key, event, meta) ==
    LET nextMeta == [recordEvent(event, meta) EXCEPT !.lastSeq = event.sequence]
        A  == applyEvent(S0, event)
        S1 == [A EXCEPT
                  !.seqMeta = MapPut(@, key, nextMeta),
                  !.out.applied = Append(@, Applied(key, event))]
        F  == flushBuffer(S1, key)
    IN  IF A.out.threw THEN A
        ELSE IF F.out.threw THEN F
        ELSE notifyListeners(F)

\* mutant: a duplicate is counted and the listeners are notified all the same
ignoreDuplicate_Notifies(S0) ==
    notifyListeners([S0 EXCEPT !.state.metrics.events_ignored = @ + 1])

\* dispatch, duplicate delta
ignoreDuplicate(S0) ==
    [S0 EXCEPT !.state.metrics.events_ignored = @ + 1]

\* mutant: a delta ahead of the first snapshot counts as a gap too
bufferAhead_AlwaysGap(S0, key, event, meta) ==
    bufferDelta([S0 EXCEPT !.state.metrics.gaps_detected = @ + 1], key, event)

\* dispatch, delta ahead of the expected sequence number (cmp > 0)
bufferAhead(S0, key, event, meta) ==
    IF meta.lastSeq # 0
    THEN bufferDelta([S0 EXCEPT !.state.metrics.gaps_detected = @ + 1], key, event)
    ELSE bufferDelta(S0, key, event)

\* mutant: the listeners are notified before the buffer is flushed
applyInOrder_NotifyBeforeFlush(S0, key, event, meta) ==
    LET S1 == [applyEvent(S0, event) EXCEPT
                  !.seqMeta = MapPut(@, key, recordEvent(event, meta)),
                  !.out.applied = Append(@, Applied(key, event))]
    IN  flushBuffer(notifyListeners(S1), key)

\* dispatch, in-order delta
applyInOrder(S0, key, event, meta) ==
    LET A  == applyEvent(S0, event)
        S1 == [A EXCEPT
                  !.seqMeta = MapPut(@, key, recordEvent(event, meta)),
                  !.out.applied = Append(@, Applied(key, event))]
        F  == flushBuffer(S1, key)
    IN  IF A.out.threw THEN A
        ELSE IF F.out.threw THEN F
        ELSE notifyListeners(F)

\* mutant: the gap check comes before the duplicate check
dispatch_GapBeforeDedup(S, event) ==
    LET key  == domainKey(event)
        S0   == getSeqMeta(S, key)
        meta == MetaOf(S0, key)
        cmp  == compareSeq(event.sequence, meta.lastSeq + 1)
    IN  IF event.event_type = "snapshot" THEN acceptSnapshot(S0, key, event, meta)
        ELSE IF cmp > 0 THEN bufferAhead(S0, key, event, meta)
        ELSE IF isDuplicate(event, meta) THEN ignoreDuplicate(S0)
        ELSE applyInOrder(S0, key, event, meta)

dispatch(S, event) ==
    LET key  == domainKey(event)
        S0   == getSeqMeta(S, key)
        meta == MetaOf(S0, key)
        cmp  == compareSeq(event.sequence, meta.lastSeq + 1)
    IN  IF event.event_type = "snapshot" THEN acceptSnapshot(S0, key, event, meta)
        ELSE IF isDuplicate(event, meta) THEN ignoreDuplicate(S0)
        ELSE IF cmp > 0 THEN bufferAhead(S0, key, event, meta)
        ELSE applyInOrder(S0, key, event, meta)

\* read-only getters
getOrderbook(symbol) == MapGet(state.orderbooks, symbol)
getTicker(symbol) == MapGet(state.tickers, symbol)
getTrades(symbol) == IF MapHas(state.trades, symbol) THEN state.trades[symbol] ELSE <<>>
getAccount == state.account

(***************************************************************************)
(* Events the transport may hand to dispatch.  The server numbers the      *)
(* events of a stream and gives each one id (store.test.ts: makeSnapshot,  *)
(* makeDelta); the transport delivers them at least once, in any order.    *)
(***************************************************************************)
Symbols == {"BTC_USD"}

\* the event id of the server's event of a type at a sequence number
EventId(event_type, seq) == <<event_type, seq>>

makeEvent(source, event_type, seq, payload) ==
    [event_id |-> EventId(event_type, seq), event_type |-> event_type, source |-> source,
     sequence |-> seq, timestamp |-> 1000, payload |-> payload]

makeSnapshot(seq) ==
    makeEvent("market_data", "snapshot", seq,
              [symbol |-> "BTC_USD",
               bids   |-> <<<<Dec(1), Dec(1)>>, <<Dec(2), Dec(1)>>>>,
               asks   |-> <<<<Dec(9), Dec(1)>>, <<Dec(8), Dec(1)>>>>])

\* odd sequence numbers carry an orderbook delta (a new bid level at the
\* sequence number, the level two below removed), even ones a ticker delta
makeDelta(seq) ==
    makeEvent("market_data", "delta", seq,
              IF seq % 2 = 1
              THEN [symbol |-> "BTC_USD",
                    bids   |-> <<<<Dec(seq), Dec(1)>>, <<Dec(seq - 2), Dec(0)>>>>]
              ELSE [symbol |-> "BTC_USD", last_price |-> Dec(seq)])

makeTrade(seq) ==
    makeEvent("trades", "delta", seq,
              [symbol |-> "BTC_USD", price |-> Dec(seq), quantity |-> Dec(1),
               side |-> "BUY"])

SomeOrder == [order_id |-> "o1", symbol |-> "BTC_USD", status |-> "OPEN"]

makeAccountSnapshot(seq) ==
    makeEvent("account", "snapshot", seq,
              [account_id |-> "acc", balances |-> [USD |-> Dec(10)],
               orders |-> <<SomeOrder>>])

makeAccountDelta(seq) ==
    makeEvent("account", "delta", seq,
              [account_id |-> "acc", balances |-> [BTC |-> Dec(seq)],
               order |-> [SomeOrder EXCEPT !.status = "FILLED"]])

\* the smallest sequence number that Number() does not represent exactly
HugeSeq == Pow2(MantissaBits) + 1

Events ==
    {makeSnapshot(seq) : seq \in 1..MaxSeq}
    \cup {makeDelta(seq) : seq \in 1..MaxSeq}
    \cup {makeSnapshot(HugeSeq), makeDelta(HugeSeq + 2)}
    \cup {makeTrade(seq) : seq \in 1..MaxSideSeq}
    \cup {makeAccountSnapshot(seq) : seq \in 1..MaxSideSeq}
    \cup {makeAccountDelta(seq) : seq \in 1..MaxSideSeq}

(***************************************************************************)
(* Behaviours                                                              *)
(***************************************************************************)
\* new DexWebSocketClient(config): the field initialisers
NewClient ==
    [ws |-> 0, heartbeatTimer |-> FALSE, reconnectAttempt |-> 0,
     intentionalClose |-> FALSE, recovering |-> FALSE,
     subscriptions |-> <<>>, pendingSubs |-> <<>>,
     onErrorHandler |-> FALSE, errors |-> <<>>]

WsInit ==
    /\ client = NewClient
    /\ sockets = <<>>
    /\ promises = <<>>
    /\ tokens = <<>>
    /\ timers = <<>>
    /\ resubs = <<>>
    /\ wire = [frames |-> 0, calls |-> 0, closes |-> 0, active |-> {}]

Init ==
    /\ WsInit
    /\ state = [orderbooks |-> <<>>, tickers |-> <<>>, trades |-> <<>>, account |-> <<>>,
                metrics |-> [events_ignored |-> 0, gaps_detected |-> 0,
                             buffer_size_by_stream |-> <<>>]]
    /\ seqMeta = <<>>
    /\ deltaBuffers = <<>>
    /\ listeners = <<>>
    /\ snapshotListeners = <<>>
    /\ steps = 0
    /\ last = [event |-> <<>>, pre |-> <<>>, out |-> NoTrace]

Dispatch(event) ==
    /\ steps < MaxSteps
    /\ \E S \in {dispatch(Store, event)} :
           /\ state' = S.state
           /\ seqMeta' = S.seqMeta
           /\ deltaBuffers' = S.deltaBuffers
           /\ last' = [event |-> event, pre |-> Store, out |-> S.out]
    /\ steps' = steps + 1
    /\ UNCHANGED <<listeners, snapshotListeners>>
    /\ UNCHANGED wsVars

\* onStateChange(listener) and the unsubscribe function it returns
OnStateChange(l) ==
    /\ steps < MaxSteps
    /\ Len(listeners) < MaxListeners
    /\ listeners' = Append(listeners, l)
    /\ UNCHANGED <<state, seqMeta, deltaBuffers, snapshotListeners, steps, last>>
    /\ UNCHANGED wsVars

OffStateChange(l) ==
    /\ steps < MaxSteps
    /\ l \in Range(listeners)
    /\ listeners' = SelectSeq(listeners, LAMBDA x : x # l)
    /\ UNCHANGED <<state, seqMeta, deltaBuffers, snapshotListeners, steps, last>>
    /\ UNCHANGED wsVars

\* onRequestSnapshot(listener) and the unsubscribe function it returns
OnRequestSnapshot(l) ==
    /\ steps < MaxSteps
    /\ Len(snapshotListeners) < MaxListeners
    /\ snapshotListeners' = Append(snapshotListeners, l)
    /\ UNCHANGED <<state, seqMeta, deltaBuffers, listeners, steps, last>>
    /\ UNCHANGED wsVars

OffRequestSnapshot(l) ==
    /\ steps < MaxSteps
    /\ l \in Range(snapshotListeners)
    /\ snapshotListeners' = SelectSeq(snapshotListeners, LAMBDA x : x # l)
    /\ UNCHANGED <<state, seqMeta, deltaBuffers, listeners, steps, last>>
    /\ UNCHANGED wsVars

Next ==
    \/ \E event \in Events : Dispatch(event)
    \/ \E l \in 1..MaxListeners : OnStateChange(l)
    \/ \E l \in 1..MaxListeners : OffStateChange(l)
    \/ \E l \in 1..MaxListeners : OnRequestSnapshot(l)
    \/ \E l \in 1..MaxListeners : OffRequestSnapshot(l)

Spec == Init /\ [][Next]_vars

(***************************************************************************)
(* Frames as they come off the wire.  The transport hands every frame that *)
(* has an event_id and a sequence to the handlers (ws-client.ts,           *)
(* _handleMessage), whatever its payload holds.                            *)
(***************************************************************************)
\* a snapshot whose bids name one price twice, once with quantity "0"
makeSloppySnapshot(seq) ==
    [makeEvent("market_data", "snapshot", seq,
               [symbol |-> "BTC_USD",
                bids   |-> <<<<Dec(1), Dec(1)>>, <<Dec(1), Dec(0)>>>>,
                asks   |-> <<>>])
        EXCEPT !.event_id = <<"snapshot-sloppy", seq>>]

\* a delta that spells a price of the book and the quantity zero another way
makeRespelledDelta(seq) ==
    [makeEvent("market_data", "delta", seq,
               [symbol |-> "BTC_USD",
                bids   |-> <<<<DecAlt(1), Dec(1)>>, <<Dec(2), DecAlt(0)>>>>])
        EXCEPT !.event_id = <<"delta-respelled", seq>>]

\* a market_data snapshot whose payload has no bids and no asks
makeBareSnapshot(seq) ==
    [makeEvent("market_data", "snapshot", seq, [symbol |-> "BTC_USD"])
        EXCEPT !.event_id = <<"snapshot-bare", seq>>]

\* an account delta whose payload is null
makeNullAccountDelta(seq) ==
    [makeEvent("account", "delta", seq, Null)
        EXCEPT !.event_id = <<"delta-null", seq>>]

WireEvents ==
    {makeSnapshot(seq) : seq \in 1..MaxSeq}
    \cup {makeDelta(seq) : seq \in 1..MaxSeq}
    \cup {makeSloppySnapshot(seq) : seq \in 1..MaxSideSeq}
    \cup {makeRespelledDelta(seq) : seq \in 2..MaxSeq}
    \cup {makeBareSnapshot(seq) : seq \in 1..MaxSideSeq}
    \cup {makeAccountSnapshot(seq) : seq \in 1..MaxSideSeq}
    \cup {makeNullAccountDelta(seq) : seq \in 1..MaxSideSeq}

NextWire ==
    \/ \E event \in WireEvents : Dispatch(event)
    \/ \E l \in 1..MaxListeners : OnStateChange(l)
    \/ \E l \in 1..MaxListeners : OffStateChange(l)
    \/ \E l \in 1..MaxListeners : OnRequestSnapshot(l)
    \/ \E l \in 1..MaxListeners : OffRequestSnapshot(l)

SpecWire == Init /\ [][NextWire]_vars

(***************************************************************************)
(* ws-client.ts: DexWebSocketClient.  The methods work on a world W: the   *)
(* client object W.c, the sockets it constructed, the promises it handed   *)
(* out, its pending continuations, and the store its handlers dispatch to  *)
(* (StoreProvider.tsx).  A subscription's params are the pairs             *)
(* <<name, value>> of the object, in the order the caller wrote them.      *)
(***************************************************************************)
World ==
    [c |-> client, sockets |-> sockets, promises |-> promises, tokens |-> tokens,
     timers |-> timers, resubs |-> resubs, store |-> Store, steps |-> steps,
     last |-> last]

\* Object.keys(params).sort(): the parameter names in string order
ParamNames == <<"account_id", "depth", "symbol">>
Rank(name) == CHOOSE i \in 1..Len(ParamNames) : ParamNames[i] = name

RECURSIVE InsertParam(_, _)
InsertParam(sorted, x) ==
    IF sorted = <<>> THEN <<x>>
    ELSE IF Rank(x[1]) >= Rank(sorted[Len(sorted)][1]) THEN Append(sorted, x)
    ELSE Append(InsertParam(SubSeq(sorted, 1, Len(sorted) - 1), x), sorted[Len(sorted)])

RECURSIVE SortParams(_)
SortParams(params) ==
    IF params = <<>> THEN <<>>
    ELSE InsertParam(SortParams(SubSeq(params, 1, Len(params) - 1)), params[Len(params)])

\* the subscription key without the sort of the parameter names
subKey_Unsorted(channel, params) == <<channel, params>>

\* `${channel}::${k=v joined by &}`
subKey(channel, params) == <<channel, SortParams(params)>>

\* this.subscriptions, a Map in insertion order: the index of a key, 0 if absent
SubIndex(subs, key) ==
    IF \E i \in 1..Len(subs) : subs[i].k = key
    THEN CHOOSE i \in 1..Len(subs) : subs[i].k = key
    ELSE 0

SubsSet(subs, key, value) ==
    IF SubIndex(subs, key) # 0
    THEN [subs EXCEPT ![SubIndex(subs, key)] = value]
    ELSE Append(subs, value)

SubsDelete(subs, key) == SelectSeq(subs, LAMBDA sub : sub.k # key)

send(W, msg) ==
    IF W.c.ws # 0 /\ W.sockets[W.c.ws].readyState = "OPEN"
    THEN [W EXCEPT !.sockets[W.c.ws].sent = Append(@, msg)]
    ELSE W

NewPromise(kind, key, status, reconnect) ==
    [kind |-> kind, key |-> key, status |-> status, reconnect |-> reconnect]

\* subscribe(channel, params); the promise it returns is the last of W.promises
subscribe(W, channel, params) ==
    LET key == subKey(channel, params)
    IN  IF SubIndex(W.c.subscriptions, key) # 0
        THEN [W EXCEPT !.promises =
                 Append(@, NewPromise("subscribe", key, "resolved", FALSE))]
        ELSE send([W EXCEPT
                      !.promises = Append(@, NewPromise("subscribe", key, "pending", FALSE)),
                      !.c.pendingSubs = MapPut(@, key, Len(W.promises) + 1)],
                  [action |-> "subscribe", channel |-> channel, params |-> params])

unsubscribe(W, channel, params) ==
    send([W EXCEPT !.c.subscriptions = SubsDelete(@, subKey(channel, params))],
         [action |-> "unsubscribe", channel |-> channel, params |-> params])

clearHeartbeat(W) == [W EXCEPT !.c.heartbeatTimer = FALSE]
resetHeartbeat(W) == [clearHeartbeat(W) EXCEPT !.c.heartbeatTimer = TRUE]

\* ws.close(code, reason) of socket s
close(W, s, code) ==
    IF W.sockets[s].readyState \in {"CONNECTING", "OPEN"}
    THEN [W EXCEPT !.sockets[s].readyState = "CLOSING", !.sockets[s].code = code]
    ELSE W

\* _connect() up to its await of getToken()
connectBegin(W, reconnect) ==
    [W EXCEPT !.promises = Append(@, NewPromise("connect", <<>>, "pending", reconnect)),
              !.tokens = Append(@, [promise |-> Len(W.promises) + 1])]

\* _connect() from the token on: new WebSocket(url), handlers attached
connectOpen(W, t) ==
    [W EXCEPT !.sockets = Append(@, [readyState |-> "CONNECTING", sent |-> <<>>,
                                     resolve |-> t.promise, code |-> 0,
                                     greeted |-> FALSE, answered |-> {},
                                     acks |-> {}, prior |-> <<>>]),
              !.c.ws = Len(W.sockets) + 1]

connect(W) == connectBegin([W EXCEPT !.c.intentionalClose = FALSE], FALSE)

disconnect(W) ==
    LET W1 == clearHeartbeat([W EXCEPT !.c.intentionalClose = TRUE])
    IN  IF W1.c.ws # 0
        THEN [close(W1, W1.c.ws, 1000) EXCEPT !.c.ws = 0]
        ELSE W1

\* Math.random() in thousandths: a value of [0, 1)
Randoms == {0, 250, 500, 750, 995}
MidRandom == 500

\* backoffDelay without the cap of 16 seconds
backoffDelay_Uncapped(attempt, random) ==
    LET jitter == (Pow2(attempt) * (2 * random - 1000)) \div 10
    IN  IF 500 * Pow2(attempt) + jitter > 0 THEN 500 * Pow2(attempt) + jitter ELSE 0

\* backoffDelay(attempt) in milliseconds, with Math.random() = random / 1000:
\* base + base * 0.2 * (random * 2 - 1), which is a whole number for the
\* values of Randoms
backoffDelay(attempt, random) ==
    LET capped == IF 500 * Pow2(attempt) < 16000 THEN 500 * Pow2(attempt) ELSE 16000
        jitter == ((capped \div 500) * (2 * random - 1000)) \div 10
    IN  IF capped + jitter > 0 THEN capped + jitter ELSE 0

\* the callback passed to setTimeout runs _connect() when the timer fires
scheduleReconnect(W, random) ==
    [W EXCEPT !.timers = Append(@, [attempt |-> W.c.reconnectAttempt,
                                    delay |-> backoffDelay(W.c.reconnectAttempt, random)]),
              !.c.reconnectAttempt = @ + 1]

\* ws.onclose without the test of intentionalClose
onclose_Unconditional(W, random) == scheduleReconnect(clearHeartbeat(W), random)

\* ws.onclose of a socket
onclose(W, random) ==
    LET W1 == clearHeartbeat(W)
    IN  IF ~W1.c.intentionalClose THEN scheduleReconnect(W1, random) ELSE W1

\* _resubscribeAll, after the subscribe of sub was acknowledged.  The frame
\* carries last_seq as a member of params; the model keeps it beside them.
afterResubscribe(W, sub) ==
    IF SubIndex(W.c.subscriptions, sub.k) # 0 /\ compareSeq(sub.lastSeq, 0) > 0
    THEN [send(W, [action |-> "snapshot_since", channel |-> sub.key.channel,
                   params |-> sub.key.params, last_seq |-> NumberOf(sub.lastSeq)])
             EXCEPT !.c.recovering = TRUE]
    ELSE W

\* the for loop of _resubscribeAll from subs[i] on, up to its next await of a
\* subscribe that is not acknowledged yet
RECURSIVE resubscribeFrom(_, _, _)
resubscribeFrom(W, subs, i) ==
    IF i > Len(subs) THEN W
    ELSE LET W1 == subscribe(W, subs[i].key.channel, subs[i].key.params)
             p  == Len(W1.promises)
         IN  IF W1.promises[p].status = "resolved"
             THEN resubscribeFrom(afterResubscribe(W1, subs[i]), subs, i + 1)
             ELSE [W1 EXCEPT !.resubs = Append(@, [subs |-> subs, i |-> i, awaiting |-> p])]

resubscribeAll(W) ==
    resubscribeFrom([W EXCEPT !.c.subscriptions = <<>>], W.c.subscriptions, 1)

\* resolve() of promise p and the continuations that awaited it
RECURSIVE resumeResubs(_, _, _)
resumeResubs(W, waiting, p) ==
    IF waiting = <<>> THEN W
    ELSE LET t == waiting[1]
         IN  resumeResubs(resubscribeFrom(afterResubscribe(W, t.subs[t.i]), t.subs, t.i + 1),
                          Tail(waiting), p)

resolve(W, p) ==
    IF W.promises[p].status # "pending" THEN W
    ELSE LET W1 == [W EXCEPT !.promises[p].status = "resolved",
                             !.resubs = SelectSeq(@, LAMBDA t : t.awaiting # p)]
             W2 == resumeResubs(W1, SelectSeq(W.resubs, LAMBDA t : t.awaiting = p), p)
         IN  IF W.promises[p].reconnect THEN resubscribeAll(W2) ELSE W2

\* params of a store request as the object the listener receives
ParamsSeq(f) ==
    (IF "symbol" \in DOMAIN f THEN <<<<"symbol", f.symbol>>>> ELSE <<>>)
    \o (IF "account_id" \in DOMAIN f THEN <<<<"account_id", f.account_id>>>> ELSE <<>>)

\* StoreProvider: store.onRequestSnapshot(... client.subscribe(channel, params))
RECURSIVE onRequestSnapshot(_, _)
onRequestSnapshot(W, requests) ==
    IF requests = <<>> THEN W
    ELSE onRequestSnapshot(
             subscribe(W, requests[1].channel, ParamsSeq(requests[1].params)),
             Tail(requests))

\* the handlers of a channel: StoreProvider registers store.dispatch on each
\* S is the store after the handler's store.dispatch(event) on the store pre
dispatched(W, event, pre, S) ==
    onRequestSnapshot([W EXCEPT !.store = S, !.steps = @ + 1,
                                !.last = [event |-> event, pre |-> pre, out |-> S.out]],
                      S.out.requests)

handle(W, event, pre) == dispatched(W, event, pre, dispatch(pre, event))

handlers(W, event) == handle(W, event, [W.store EXCEPT !.out = NoTrace])

requestSnapshotSince(W, sub) ==
    send([W EXCEPT !.c.recovering = TRUE],
         [action |-> "snapshot_since", channel |-> sub.key.channel,
          params |-> sub.key.params, last_seq |-> NumberOf(sub.lastSeq)])

\* the loop of _handleEvent over the subscriptions, from the i-th on; gap tells
\* that the loop returned from _handleEvent
RECURSIVE trackSequence(_, _, _)
trackSequence(W, event, i) ==
    IF i > Len(W.c.subscriptions) THEN [W |-> W, gap |-> FALSE]
    ELSE LET sub == W.c.subscriptions[i]
         IN  IF sub.key.channel # event.source THEN trackSequence(W, event, i + 1)
             ELSE IF compareSeq(event.sequence, sub.lastSeq + 1) > 0 /\ ~W.c.recovering
             THEN [W |-> requestSnapshotSince(W, sub), gap |-> TRUE]
             ELSE IF compareSeq(event.sequence, sub.lastSeq) > 0
             THEN trackSequence([W EXCEPT !.c.subscriptions[i].lastSeq = event.sequence],
                                event, i + 1)
             ELSE trackSequence(W, event, i + 1)

\* _handleEvent after its loop over the subscriptions
forward(r, event) == IF r.gap THEN r.W ELSE handlers(r.W, event)

handleEvent(W, event) == forward(trackSequence(W, event, 1), event)

\* the inner loop of _handleSnapshotSince: every subscription of the channel
RECURSIVE replayCursor(_, _, _, _)
replayCursor(W, channel, event, i) ==
    IF i > Len(W.c.subscriptions) THEN W
    ELSE IF W.c.subscriptions[i].key.channel = channel
            /\ compareSeq(event.sequence, W.c.subscriptions[i].lastSeq) > 0
    THEN replayCursor([W EXCEPT !.c.subscriptions[i].lastSeq = event.sequence],
                      channel, event, i + 1)
    ELSE replayCursor(W, channel, event, i + 1)

\* the outer loop of _handleSnapshotSince; an exception of a handler leaves it
RECURSIVE replay(_, _, _)
replayRest(W1, channel, events) ==
    IF W1.store.out.threw THEN W1 ELSE replay(W1, channel, events)

replay(W, channel, events) ==
    IF events = <<>> THEN W
    ELSE replayRest(handlers(replayCursor(W, channel, events[1], 1), events[1]),
                    channel, Tail(events))

\* this.recovering = false, unless a handler threw out of the loop
endRecovery(W1) ==
    IF W1.store.out.threw THEN W1 ELSE [W1 EXCEPT !.c.recovering = FALSE]

handleSnapshotSince(W, msg) == endRecovery(replay(W, msg.channel, msg.events))

\* onError(handler)
onError(W) == [W EXCEPT !.c.onErrorHandler = TRUE]

\* the `error` branch without the call of the handler
onErrorFrame_Silent(W, msg) == W

\* this.onErrorHandler?.(msg.code, msg.message); W.c.errors keeps the calls
\* the handler received
onErrorFrame(W, msg) ==
    IF W.c.onErrorHandler
    THEN [W EXCEPT !.c.errors = Append(@, <<msg.code, msg.message>>)]
    ELSE W

\* _handleMessage for a frame that arrived on socket s
handleMessage(W, s, msg) ==
    IF "type" \in DOMAIN msg /\ msg.type = "connected"
    THEN resolve(resetHeartbeat([W EXCEPT !.c.reconnectAttempt = 0,
                                          !.sockets[s].greeted = TRUE]),
                 W.sockets[s].resolve)
    ELSE IF "type" \in DOMAIN msg /\ msg.type = "ping"
    THEN send(resetHeartbeat(W), [type |-> "pong"])
    ELSE IF "type" \in DOMAIN msg /\ msg.type = "subscribed"
    THEN LET key == subKey(msg.channel, msg.params)
             W1  == [W EXCEPT !.c.subscriptions =
                        SubsSet(@, key, [k |-> key,
                                         key |-> [channel |-> msg.channel,
                                                  params |-> msg.params],
                                         lastSeq |-> NumberOf(msg.snapshot_seq)])]
         IN  IF MapHas(W1.c.pendingSubs, key)
             THEN resolve([W1 EXCEPT !.c.pendingSubs = MapRemove(@, key)],
                          W1.c.pendingSubs[key])
             ELSE W1
    ELSE IF "type" \in DOMAIN msg /\ msg.type = "unsubscribed"
    THEN [W EXCEPT !.c.subscriptions = SubsDelete(@, subKey(msg.channel, msg.params))]
    ELSE IF "type" \in DOMAIN msg /\ msg.type = "snapshot_since_response"
    THEN handleSnapshotSince(W, msg)
    ELSE IF "type" \in DOMAIN msg /\ msg.type = "error"
    THEN onErrorFrame(W, msg)
    ELSE IF "event_id" \in DOMAIN msg /\ "sequence" \in DOMAIN msg
    THEN handleEvent(W, msg)
    ELSE W

(***************************************************************************)
(* Behaviours of the client, wired to the store as StoreProvider.tsx does. *)
(* The server greets a connection once with `connected`, answers the       *)
(* frames it received (or leaves them unanswered), pings and pushes events *)
(* (ws-protocol.md); the network may close any connection at any time.     *)
(***************************************************************************)
WsSymbols == {"BTC_USD", "ETH_USD"}
ParamsOf(symbol) == <<<<"symbol", symbol>>>>

\* the server's events of a market_data stream
makeDeltaOf(symbol, seq) ==
    [makeDelta(seq) EXCEPT !.payload.symbol = symbol,
                           !.event_id = <<symbol, "delta", seq>>]
makeSnapshotOf(symbol, seq) ==
    [makeSnapshot(seq) EXCEPT !.payload.symbol = symbol,
                              !.event_id = <<symbol, "snapshot", seq>>]

\* the deltas from + 1 .. to of a stream, as a snapshot_since_response lists them
Deltas(symbol, from, to) ==
    [i \in 1..(to - from) |-> makeDeltaOf(symbol, from + i)]

SymbolOf(params) ==
    IF \E i \in 1..Len(params) : params[i][1] = "symbol"
    THEN params[CHOOSE i \in 1..Len(params) : params[i][1] = "symbol"][2]
    ELSE ""

WsCommit(W) ==
    /\ client' = W.c
    /\ sockets' = W.sockets
    /\ promises' = W.promises
    /\ tokens' = W.tokens
    /\ timers' = W.timers
    /\ resubs' = W.resubs
    /\ state' = W.store.state
    /\ seqMeta' = W.store.seqMeta
    /\ deltaBuffers' = W.store.deltaBuffers
    /\ steps' = W.steps
    /\ last' = W.last
    /\ UNCHANGED <<listeners, snapshotListeners>>

\* a call of the application; wire.active keeps the keys the server
\* acknowledged and neither the application nor the server unsubscribed
Call(W, dropped) ==
    /\ wire.calls < MaxCalls
    /\ wire' = [wire EXCEPT !.calls = @ + 1, !.active = @ \ dropped]
    /\ WsCommit(W)

Connect == Call(connect(World), {})
OnError == Call(onError(World), {})
Disconnect == Call(disconnect(World), {})
Subscribe(symbol) == Call(subscribe(World, "market_data", ParamsOf(symbol)), {})
Unsubscribe(symbol) ==
    Call(unsubscribe(World, "market_data", ParamsOf(symbol)),
         {subKey("market_data", ParamsOf(symbol))})

\* getToken() resolves for the i-th waiting _connect
TokenResolves(i) ==
    /\ i \in 1..Len(tokens)
    /\ Len(sockets) < MaxSockets
    /\ WsCommit(connectOpen(
           [World EXCEPT !.tokens = SubSeq(@, 1, i - 1) \o SubSeq(@, i + 1, Len(@))],
           tokens[i]))
    /\ UNCHANGED wire

\* the handshake of socket s completes; ws.onopen does nothing
SocketOpens(s) ==
    /\ s \in 1..Len(sockets)
    /\ sockets[s].readyState = "CONNECTING"
    /\ sockets' = [sockets EXCEPT ![s].readyState = "OPEN"]
    /\ UNCHANGED <<client, promises, tokens, timers, resubs, wire>>
    /\ UNCHANGED storeVars

\* socket s closes: the close the client asked for completes, or the
\* connection is lost; ws.onclose runs
SocketCloses(s) ==
    /\ s \in 1..Len(sockets)
    /\ \/ /\ sockets[s].readyState = "CLOSING"
          /\ UNCHANGED wire
       \/ /\ sockets[s].readyState \in {"CONNECTING", "OPEN"}
          /\ wire.closes < MaxCloses
          /\ wire' = [wire EXCEPT !.closes = @ + 1]
    /\ WsCommit(onclose([World EXCEPT !.sockets[s].readyState = "CLOSED"], MidRandom))

\* the i-th reconnect timer fires: the callback calls _connect()
TimerFires(i) ==
    /\ i \in 1..Len(timers)
    /\ WsCommit(connectBegin(
           [World EXCEPT !.timers = SubSeq(@, 1, i - 1) \o SubSeq(@, i + 1, Len(@))],
           TRUE))
    /\ UNCHANGED wire

\* the liveness timer fires: this.ws?.close(4000, "heartbeat timeout")
HeartbeatTimeout ==
    /\ client.heartbeatTimer
    /\ LET W == [World EXCEPT !.c.heartbeatTimer = FALSE]
       IN  WsCommit(IF W.c.ws # 0 THEN close(W, W.c.ws, 4000) ELSE W)
    /\ UNCHANGED wire

\* the sequence numbers a `subscribed` acknowledgement reports
AckSeqs == {0, HugeSeq - 1}

\* the answers of the server to a frame it received
AnswersTo(msg) ==
    IF "action" \in DOMAIN msg /\ msg.action = "subscribe"
    THEN {[type |-> "subscribed", channel |-> msg.channel, params |-> msg.params,
           snapshot_seq |-> seq] : seq \in AckSeqs}
         \cup {[type |-> "error", code |-> "RATE_LIMIT_EXCEEDED", message |-> "slow down"]}
    ELSE IF "action" \in DOMAIN msg /\ msg.action = "unsubscribe"
    THEN {[type |-> "unsubscribed", channel |-> msg.channel, params |-> msg.params]}
    ELSE IF "action" \in DOMAIN msg /\ msg.action = "snapshot_since"
    THEN {[type |-> "snapshot_since_response", channel |-> msg.channel,
           from_seq |-> msg.last_seq + 1, to_seq |-> to,
           events |-> Deltas(SymbolOf(msg.params), msg.last_seq, to)] :
               to \in msg.last_seq..msg.last_seq + 1}
    ELSE {}

\* the events the server pushes
WsEvents ==
    {makeSnapshotOf("BTC_USD", 1), makeDeltaOf("BTC_USD", 2),
     makeDeltaOf("BTC_USD", HugeSeq), makeDeltaOf("ETH_USD", 1)}

\* The frames that can arrive on socket s, each with the server's record of
\* the connection once it sent the frame: the greeting, which comes first and
\* once; an answer to a frame of the client not answered yet; a ping or an
\* event, sent unasked.
Greeting(s) ==
    IF sockets[s].greeted THEN {}
    ELSE {[msg |-> [type |-> "connected", session_id |-> s],
           socket |-> [sockets[s] EXCEPT !.prior =
                          IF promises[sockets[s].resolve].reconnect
                          THEN client.subscriptions ELSE <<>>],
           unasked |-> 0]}

AnswerFrames(s) ==
    IF ~sockets[s].greeted THEN {}
    ELSE UNION {{[msg |-> msg,
                  socket |-> [sockets[s] EXCEPT
                                 !.answered = @ \cup {i},
                                 !.acks = IF msg.type = "subscribed"
                                          THEN @ \cup {<<i, msg.snapshot_seq>>}
                                          ELSE @],
                  unasked |-> 0] : msg \in AnswersTo(sockets[s].sent[i])} :
               i \in (1..Len(sockets[s].sent)) \ sockets[s].answered}

PushFrames(s) ==
    IF ~sockets[s].greeted \/ wire.frames >= MaxFrames THEN {}
    ELSE {[msg |-> msg, socket |-> sockets[s], unasked |-> 1] :
              msg \in {[type |-> "ping"]} \cup WsEvents}

Acknowledged(msg) ==
    IF "type" \in DOMAIN msg /\ msg.type = "subscribed"
    THEN {subKey(msg.channel, msg.params)}
    ELSE {}

Released(msg) ==
    IF "type" \in DOMAIN msg /\ msg.type = "unsubscribed"
    THEN {subKey(msg.channel, msg.params)}
    ELSE {}

\* ws.onmessage of socket s with a frame that parses
OnMessage(s) ==
    /\ s \in 1..Len(sockets)
    /\ sockets[s].readyState = "OPEN"
    /\ \E d \in Greeting(s) \cup AnswerFrames(s) \cup PushFrames(s) :
           /\ WsCommit(handleMessage([World EXCEPT !.sockets[s] = d.socket], s, d.msg))
           /\ wire' = [wire EXCEPT !.frames = @ + d.unasked,
                                   !.active = (@ \cup Acknowledged(d.msg)) \ Released(d.msg)]

NextWs ==
    \/ Connect
    \/ OnError
    \/ Disconnect
    \/ \E symbol \in WsSymbols : Subscribe(symbol)
    \/ Unsubscribe("BTC_USD")
    \/ \E i \in 1..MaxSockets : TokenResolves(i)
    \/ \E s \in 1..MaxSockets : SocketOpens(s)
    \/ \E s \in 1..MaxSockets : SocketCloses(s)
    \/ \E i \in 1..MaxSockets : TimerFires(i)
    \/ HeartbeatTimeout
    \/ \E s \in 1..MaxSockets : OnMessage(s)

\* StoreProvider: one snapshot-request listener and one state-change listener
InitWs ==
    /\ WsInit
    /\ state = [orderbooks |-> <<>>, tickers |-> <<>>, trades |-> <<>>, account |-> <<>>,
                metrics |-> [events_ignored |-> 0, gaps_detected |-> 0,
                             buffer_size_by_stream |-> <<>>]]
    /\ seqMeta = <<>>
    /\ deltaBuffers = <<>>
    /\ listeners = <<1>>
    /\ snapshotListeners = <<1>>
    /\ steps = 0
    /\ last = [event |-> <<>>, pre |-> <<>>, out |-> NoTrace]

SpecWs == InitWs /\ [][NextWs]_vars

(***************************************************************************)
(* Vocabulary of the properties: the last dispatch call                    *)
(***************************************************************************)
Called == steps > 0
Ev == last.event
Pre == last.pre
Out == last.out
Key == domainKey(Ev)
PreMeta == MetaOf(Pre, Key)
PostMeta == MetaOf(Store, Key)
BufferOf(S, key) == IF MapHas(S.deltaBuffers, key) THEN S.deltaBuffers[key] ELSE <<>>
PreBuffer == BufferOf(Pre, Key)
PostBuffer == BufferOf(Store, Key)
Metrics == state.metrics
PreMetrics == Pre.state.metrics
Keys == DOMAIN seqMeta \cup DOMAIN deltaBuffers \cup DOMAIN Metrics.buffer_size_by_stream
          \cup {domainKey(e) : e \in Events \cup WireEvents}

\* the four projections
Projections(S) == [orderbooks |-> S.state.orderbooks, tickers |-> S.state.tickers,
                   trades |-> S.state.trades, account |-> S.state.account]

\* duplicate as the specification words it: id already seen, or a delta at or
\* below the stream's lastSeq
SeenBefore == Ev.event_id \in Range(PreMeta.seenIds)
DuplicateDelta == Ev.event_type = "delta" /\ (SeenBefore \/ Ev.sequence <= PreMeta.lastSeq)
FreshDelta == Ev.event_type = "delta" /\ ~SeenBefore /\ Ev.sequence > PreMeta.lastSeq
InOrderDelta == FreshDelta /\ Ev.sequence = PreMeta.lastSeq + 1
AheadDelta == FreshDelta /\ Ev.sequence > PreMeta.lastSeq + 1
Overflows == Len(PreBuffer) >= MAX_BUFFER_SIZE

\* the sequence numbers of the events the call applied, in order
AppliedSeqs == [i \in 1..Len(Out.applied) |-> Out.applied[i].sequence]
StrictlyIncreasing(q) == \A i \in 1..Len(q) - 1 : q[i] < q[i + 1]

\* the requests of the call as each registered listener received them
RequestsTo(l) == SelectSeq(Out.requests, LAMBDA r : r.listener = l)
OneRequestEach(sinceSeq) ==
    /\ Len(Out.requests) = Len(Pre.snapshotListeners)
    /\ \A i \in 1..Len(Out.requests) :
          /\ Out.requests[i].listener = Pre.snapshotListeners[i]
          /\ Out.requests[i].channel = Ev.source
          /\ Out.requests[i].sinceSeq = sinceSeq
          /\ ("symbol" \in DOMAIN Ev.payload =>
                 /\ "symbol" \in DOMAIN Out.requests[i].params
                 /\ Out.requests[i].params.symbol = Ev.payload.symbol)

(***************************************************************************)
(* C1                                                                      *)
(***************************************************************************)
\* C1 (as claimed): the events a dispatch call applies to a stream carry
\* strictly increasing sequence numbers above the stream's lastSeq, and the
\* stream's lastSeq never moves backwards or repeats.
C1_AppliedStrictlyIncreasing ==
    Called =>
        /\ StrictlyIncreasing(<<PreMeta.lastSeq>> \o AppliedSeqs)
        /\ PostMeta.lastSeq >= PreMeta.lastSeq

\* C1 (amended): the sequence numbers of the events one dispatch call applies
\* are strictly increasing and lastSeq ends at the last of them; a dispatched
\* delta applies only events above the stream's lastSeq, so lastSeq does not
\* move backwards or repeat on a delta.  A snapshot is applied whatever its
\* sequence number and restarts the stream at it.
C1_StrictlyIncreasingBetweenSnapshots ==
    Called =>
        /\ StrictlyIncreasing(AppliedSeqs)
        /\ Out.applied # <<>> => PostMeta.lastSeq = AppliedSeqs[Len(AppliedSeqs)]
        /\ Out.applied = <<>> => PostMeta.lastSeq = PreMeta.lastSeq
        /\ \A i \in 1..Len(Out.applied) : Out.applied[i].key = Key
        /\ Ev.event_type = "delta" =>
              StrictlyIncreasing(<<PreMeta.lastSeq>> \o AppliedSeqs)
        /\ Ev.event_type = "snapshot" => AppliedSeqs[1] = Ev.sequence

\* C1 witness: a delta filled a gap and the flush applied a buffered delta
\* behind it
C1_Witness ==
    /\ Called
    /\ Ev.event_type = "delta"
    /\ Len(Out.applied) >= 2
    /\ PreMeta.lastSeq > 0

(***************************************************************************)
(* C2                                                                      *)
(***************************************************************************)
MetricOf(S, key) ==
    IF MapHas(S.state.metrics.buffer_size_by_stream, key)
    THEN S.state.metrics.buffer_size_by_stream[key] ELSE 0

\* C2: a delta not seen before, above lastSeq + 1, on a stream whose lastSeq
\* is above 0: gaps_detected goes up by one, the delta is appended to the
\* stream's buffer (size metric + 1), projection and lastSeq stay, and every
\* registered snapshot listener is called once with the event's channel, the
\* payload's symbol and sinceSeq = lastSeq.
C2_GapBuffersAndRequestsSinceLastSeq ==
    (Called /\ AheadDelta /\ PreMeta.lastSeq > 0) =>
        /\ Metrics.gaps_detected = PreMetrics.gaps_detected + 1
        /\ PostBuffer = Append(PreBuffer, Ev)
        /\ MetricOf(Store, Key) = MetricOf(Pre, Key) + 1
        /\ Projections(Store) = Projections(Pre)
        /\ PostMeta = PreMeta
        /\ OneRequestEach(PreMeta.lastSeq)

\* C2, what the code does: as claimed while the buffer has room, except that
\* sinceSeq is Number(lastSeq)
C2_GapBuffersAndRequestsSinceNumber ==
    (Called /\ AheadDelta /\ PreMeta.lastSeq > 0 /\ ~Overflows) =>
        /\ Metrics.gaps_detected = PreMetrics.gaps_detected + 1
        /\ PostBuffer = Append(PreBuffer, Ev)
        /\ MetricOf(Store, Key) = MetricOf(Pre, Key) + 1
        /\ Projections(Store) = Projections(Pre)
        /\ PostMeta = PreMeta
        /\ OneRequestEach(NumberOf(PreMeta.lastSeq))

\* C2 case: a listener was asked for a replay since a lastSeq that Number()
\* does not represent
C2_Witness ==
    /\ Called /\ AheadDelta /\ ~Overflows
    /\ Pre.snapshotListeners # <<>>
    /\ NumberOf(PreMeta.lastSeq) # PreMeta.lastSeq

(***************************************************************************)
(* C3                                                                      *)
(***************************************************************************)
\* C3 (as claimed): a delta with sequence above 1 on a stream whose lastSeq is
\* 0 is buffered, counts no gap and requests a snapshot with sinceSeq = 0;
\* when the snapshot with the sequence just below is dispatched, the flush
\* consumes the buffered delta: lastSeq is the delta's sequence, buffer empty.
C3_PreSnapshotBufferedThenFlushed ==
    /\ (Called /\ Ev.event_type = "delta" /\ Ev.sequence > 1 /\ PreMeta.lastSeq = 0) =>
          /\ PostBuffer = Append(PreBuffer, Ev)
          /\ Metrics.gaps_detected = PreMetrics.gaps_detected
          /\ OneRequestEach(0)
    /\ (Called /\ Ev.event_type = "snapshot" /\ PreMeta.lastSeq = 0) =>
          \A i \in 1..Len(PreBuffer) :
              PreBuffer[i].sequence = Ev.sequence + 1 =>
                  /\ PostMeta.lastSeq = PreBuffer[i].sequence
                  /\ PostBuffer = <<>>
                  /\ MetricOf(Store, Key) = 0

\* C3 (amended): on a stream on which nothing was applied yet (lastSeq 0, no
\* id seen) and whose buffer has room, a delta with sequence above 1 is
\* buffered, counts no gap and requests a snapshot with sinceSeq = 0; when
\* that delta is the only buffered one and the snapshot with the sequence
\* just below is dispatched, the flush applies it: lastSeq is the delta's
\* sequence and the buffer is empty (size metric 0).
C3_PreSnapshotBufferedWithinCap ==
    /\ (Called /\ AheadDelta /\ PreMeta.lastSeq = 0 /\ ~Overflows) =>
          /\ PostBuffer = Append(PreBuffer, Ev)
          /\ MetricOf(Store, Key) = Len(PostBuffer)
          /\ Metrics.gaps_detected = PreMetrics.gaps_detected
          /\ PostMeta = PreMeta
          /\ OneRequestEach(0)
    /\ (/\ Called /\ Ev.event_type = "snapshot"
        /\ PreMeta.lastSeq = 0 /\ PreMeta.seenIds = <<>>
        /\ Len(PreBuffer) = 1 /\ PreBuffer[1].sequence = Ev.sequence + 1) =>
          /\ AppliedSeqs = <<Ev.sequence, Ev.sequence + 1>>
          /\ Out.applied[2].event_id = PreBuffer[1].event_id
          /\ PostMeta.lastSeq = PreBuffer[1].sequence
          /\ PostBuffer = <<>>
          /\ MetricOf(Store, Key) = 0
          /\ Metrics.gaps_detected = PreMetrics.gaps_detected

\* C3 witness: the snapshot arrived behind the one delta buffered before it
C3_Witness ==
    /\ Called /\ Ev.event_type = "snapshot"
    /\ PreMeta.lastSeq = 0
    /\ Len(PreBuffer) = 1 /\ PreBuffer[1].sequence = Ev.sequence + 1
    /\ PostMeta.lastSeq = Ev.sequence + 1

(***************************************************************************)
(* C4                                                                      *)
(***************************************************************************)
\* the projection of the event's stream shows the payload of a delta
Reflects(S, e) ==
    LET p == e.payload
    IN  CASE e.source = "market_data" ->
               /\ ("bids" \in DOMAIN p \/ "asks" \in DOMAIN p) =>
                     /\ MapHas(S.state.orderbooks, p.symbol)
                     /\ S.state.orderbooks[p.symbol].lastSeq = e.sequence
                     /\ "bids" \in DOMAIN p =>
                           \A i \in 1..Len(p.bids) :
                              IF p.bids[i][2] = Dec(0)
                              THEN \A l \in Range(S.state.orderbooks[p.symbol].bids) :
                                       l[1] # p.bids[i][1]
                              ELSE p.bids[i] \in Range(S.state.orderbooks[p.symbol].bids)
               /\ (TickerFields \cap DOMAIN p # {}) =>
                     /\ MapHas(S.state.tickers, p.symbol)
                     /\ S.state.tickers[p.symbol].lastSeq = e.sequence
                     /\ \A f \in TickerFields \cap DOMAIN p :
                           S.state.tickers[p.symbol][f] = p[f]
          [] e.source = "trades" ->
               /\ MapHas(S.state.trades, p.symbol)
               /\ S.state.trades[p.symbol] # <<>>
               /\ LET t == S.state.trades[p.symbol][Len(S.state.trades[p.symbol])]
                  IN  t.event_id = e.event_id /\ t.price = p.price
          [] e.source = "account" ->
               /\ S.state.account # <<>>
               /\ S.state.account[1].lastSeq = e.sequence
               /\ "balances" \in DOMAIN p =>
                     \A a \in DOMAIN p.balances :
                        /\ a \in DOMAIN S.state.account[1].balances
                        /\ S.state.account[1].balances[a] = p.balances[a]
               /\ "order" \in DOMAIN p =>
                     /\ p.order.order_id \in DOMAIN S.state.account[1].orders
                     /\ S.state.account[1].orders[p.order.order_id] = p.order

\* C4: a delta not seen before whose sequence is lastSeq + 1 is folded into
\* the projection, lastSeq (of seqMeta and of the projection) becomes its
\* sequence, its id joins seenIds, events_ignored and gaps_detected stay; no
\* delta is recorded as applied without its payload in the projection.
C4_InOrderDeltaFolded ==
    (Called /\ InOrderDelta) =>
        /\ Reflects(Store, Ev)
        /\ PostMeta.lastSeq = Ev.sequence
        /\ Ev.event_id \in Range(PostMeta.seenIds)
        /\ Metrics.events_ignored = PreMetrics.events_ignored
        /\ Metrics.gaps_detected = PreMetrics.gaps_detected

\* C4, the last sentence alone, for a dispatch that applied the delta and
\* nothing behind it
C4_RecordedOnlyIfFolded ==
    (Called /\ InOrderDelta /\ Len(Out.applied) = 1) => Reflects(Store, Ev)

\* C4 case: an orderbook delta was recorded as applied on a stream that has
\* no orderbook
C4_Witness ==
    /\ Called /\ InOrderDelta
    /\ Out.applied # <<>>
    /\ "bids" \in DOMAIN Ev.payload
    /\ ~MapHas(state.orderbooks, Ev.payload.symbol)

(***************************************************************************)
(* C5                                                                      *)
(***************************************************************************)
\* the projection is the snapshot's payload and nothing of what was there
WholesaleReplaced(S, e) ==
    LET p == e.payload
    IN  CASE e.source = "market_data" ->
               /\ MapHas(S.state.orderbooks, p.symbol)
               /\ LET ob == S.state.orderbooks[p.symbol]
                  IN  /\ ob.symbol = p.symbol /\ ob.lastSeq = e.sequence
                      /\ Len(ob.bids) = Len(p.bids) /\ Range(ob.bids) = Range(p.bids)
                      /\ Len(ob.asks) = Len(p.asks) /\ Range(ob.asks) = Range(p.asks)
          [] e.source = "account" ->
               /\ S.state.account # <<>>
               /\ LET acc == S.state.account[1]
                  IN  /\ acc.account_id = p.account_id /\ acc.lastSeq = e.sequence
                      /\ acc.balances = p.balances
                      /\ DOMAIN acc.orders = {p.orders[i].order_id : i \in 1..Len(p.orders)}

C6_DuplicateOnlyCounted ==
    (Called /\ DuplicateDelta) =>
        /\ state = [Pre.state EXCEPT !.metrics.events_ignored = @ + 1]
        /\ \A k \in Keys : MetaOf(Store, k) = MetaOf(Pre, k)
        /\ deltaBuffers = Pre.deltaBuffers
        /\ Out = NoTrace

\* C6 witness: a delta above lastSeq was ignored for its id alone, with both
\* kinds of listener registered
C6_Witness ==
    /\ Called /\ DuplicateDelta
    /\ SeenBefore /\ Ev.sequence > PreMeta.lastSeq
    /\ Pre.listeners # <<>> /\ Pre.snapshotListeners # <<>>
    /\ Metrics.events_ignored = PreMetrics.events_ignored + 1

(***************************************************************************)
(* C7                                                                      *)
(***************************************************************************)
\* C7: when buffering a delta would take the buffer over the cap, the buffer
\* is cleared (size metric 0) and each listener gets one request, with
\* sinceSeq = 0 and none with sinceSeq = lastSeq; lastSeq and the projection
\* stay.
C7_OverflowClearsAndRequestsFull ==
    (Called /\ AheadDelta /\ Overflows) =>
        /\ PostBuffer = <<>>
        /\ MapHas(Metrics.buffer_size_by_stream, Key)
        /\ Metrics.buffer_size_by_stream[Key] = 0
        /\ OneRequestEach(0)
        /\ PostMeta = PreMeta
        /\ Projections(Store) = Projections(Pre)

\* C7 witness: the buffer of a stream with lastSeq above 0 overflowed and a
\* listener was asked for a full snapshot
C7_Witness ==
    /\ Called /\ AheadDelta /\ Overflows
    /\ PreMeta.lastSeq > 0
    /\ Len(Out.requests) = 1 /\ Out.requests[1].sinceSeq = 0
    /\ PostBuffer = <<>>

(***************************************************************************)
(* C8                                                                      *)
(***************************************************************************)
\* C8: after every dispatch call every stream buffers at most the cap, and
\* the buffer_size_by_stream metric of the stream is the buffer's length.
C8_BufferBoundedAndMetered ==
    \A k \in Keys :
        /\ Len(BufferOf(Store, k)) <= MAX_BUFFER_SIZE
        /\ IF MapHas(Metrics.buffer_size_by_stream, k)
           THEN Metrics.buffer_size_by_stream[k] = Len(BufferOf(Store, k))
           ELSE BufferOf(Store, k) = <<>>

\* C8 witness: a flush took some of a full buffer and left the rest
C8_Witness ==
    /\ Called
    /\ Len(PreBuffer) = MAX_BUFFER_SIZE
    /\ Len(Out.applied) >= 2
    /\ PostBuffer # <<>>

(***************************************************************************)
(* C9                                                                      *)
(***************************************************************************)
\* C9 (as claimed): events_ignored goes up in a dispatch call exactly when the
\* dispatched event is a duplicate delta; a snapshot or a delta that is no
\* duplicate never changes it.
C9_IgnoredIffDuplicateDispatched ==
    Called => (Metrics.events_ignored > PreMetrics.events_ignored <=> DuplicateDelta)

\* buffered deltas the call's flush dropped without applying them
Discarded == Len(PreBuffer) - Len(PostBuffer) - (Len(Out.applied) - 1)

\* C9 (amended): events_ignored goes up by one when the dispatched event is a
\* duplicate delta; when the call applies an event (a snapshot, or a delta in
\* order) it goes up by one for each buffered delta that the flush discards as
\* a duplicate; a delta that is buffered leaves it alone.
C9_IgnoredCountsDuplicatesAndDiscards ==
    Called =>
        Metrics.events_ignored - PreMetrics.events_ignored =
            IF DuplicateDelta THEN 1
            ELSE IF Out.applied # <<>> THEN Discarded
            ELSE 0

\* C9 witness: a snapshot overtook a buffered delta, and the flush counted it
C9_Witness ==
    /\ Called /\ Ev.event_type = "snapshot"
    /\ Metrics.events_ignored > PreMetrics.events_ignored
    /\ Discarded >= 1

C11_NoStaleBufferedAfterSnapshot ==
    (Called /\ Ev.event_type = "snapshot") =>
        \A i \in 1..Len(PostBuffer) : PostBuffer[i].sequence > PostMeta.lastSeq

\* C11 witness: the snapshot overtook a delta that was buffered behind a later
\* one; the flush dropped it and kept the later one
C11_Witness ==
    /\ Called /\ Ev.event_type = "snapshot"
    /\ Len(PreBuffer) = 2
    /\ PreBuffer[1].sequence > Ev.sequence + 1
    /\ PreBuffer[2].sequence <= Ev.sequence
    /\ Len(PostBuffer) = 1

(***************************************************************************)
(* C12                                                                     *)
(***************************************************************************)
\* this step is a dispatch of the event that the call before it dispatched
SameEventAgain == steps > 0 /\ steps' = steps + 1 /\ last'.event = last.event

\* C12: dispatching the event just dispatched once more leaves the
\* projections as they were after the first dispatch and raises
\* events_ignored by exactly one.
C12_SecondDispatchIgnored ==
    [][SameEventAgain =>
          /\ Projections(Store)' = Projections(Store)
          /\ state'.metrics.events_ignored = state.metrics.events_ignored + 1]_vars

\* C12, the projections alone
C12_SecondDispatchKeepsProjections ==
    [][SameEventAgain => Projections(Store)' = Projections(Store)]_vars

(***************************************************************************)
(* C14                                                                     *)
(***************************************************************************)
\* the levels of one side: no price (as a string) twice, no quantity "0",
\* ordered by the numeric value of the price
LevelsWellFormed(levels, descending) ==
    /\ \A i, j \in 1..Len(levels) : i # j => levels[i][1] # levels[j][1]
    /\ \A i \in 1..Len(levels) : levels[i][2] # Dec(0)
    /\ \A i \in 1..Len(levels) - 1 :
          IF descending
          THEN parseFloat(levels[i][1]) >= parseFloat(levels[i + 1][1])
          ELSE parseFloat(levels[i][1]) <= parseFloat(levels[i + 1][1])

\* C14: in every state of the store, on each side of every orderbook no two
\* levels share a price and no level has quantity "0"; bids are ordered by
\* descending price, asks by ascending price.
C14_LevelsUniqueNonZeroOrdered ==
    \A symbol \in DOMAIN state.orderbooks :
        /\ LevelsWellFormed(state.orderbooks[symbol].bids, TRUE)
        /\ LevelsWellFormed(state.orderbooks[symbol].asks, FALSE)

\* C14 case: the book holds the levels of a snapshot as the snapshot spelled
\* them, one price twice and one quantity "0"
C14_Witness ==
    /\ Called /\ Ev.event_type = "snapshot"
    /\ "bids" \in DOMAIN Ev.payload
    /\ MapHas(state.orderbooks, "BTC_USD")
    /\ state.orderbooks["BTC_USD"].bids = Ev.payload.bids
    /\ ~LevelsWellFormed(Ev.payload.bids, TRUE)

(***************************************************************************)
(* C15                                                                     *)
(***************************************************************************)
\* C15: dispatch never throws; an event whose payload lacks the fields its
\* source and kind call for is dropped and the call returns normally.
C15_DispatchNeverThrows ==
    Called => ~Out.threw

\* C15 case: the dispatch of a well-formed account snapshot threw in its
\* flush, on a buffered delta with a null payload; the account was replaced
\* and no listener was told
C15_Witness ==
    /\ Called /\ Out.threw
    /\ Ev.event_type = "snapshot" /\ Ev.payload # Null
    /\ Len(Out.applied) = 1
    /\ Pre.listeners # <<>> /\ Out.notified = <<>>
    /\ PostBuffer # <<>>

(***************************************************************************)
(* C16                                                                     *)
(***************************************************************************)
\* C16: every dispatch that changes a projection calls every state-change
\* listener, and calls it when the change is complete: the listener sees the
\* store as the call leaves it, with the event and the buffered deltas it
\* unlocked applied, seqMeta at the last of them and no buffered event at or
\* below lastSeq + 1; a dispatch that ignores a duplicate or only buffers
\* calls no listener.
C16_NotifiedAfterCommit ==
    Called =>
        /\ Projections(Store) # Projections(Pre) => Out.notified = Pre.listeners
        /\ \A i \in 1..Len(Out.seen) :
              Out.seen[i] = [state |-> state, seqMeta |-> seqMeta,
                             deltaBuffers |-> deltaBuffers]
        /\ Out.notified # <<>> =>
              /\ Out.applied # <<>>
              /\ Out.applied[1].event_id = Ev.event_id
              /\ PostMeta.lastSeq = Out.applied[Len(Out.applied)].sequence
              /\ \A i \in 1..Len(PostBuffer) : PostBuffer[i].sequence > PostMeta.lastSeq + 1
        /\ (DuplicateDelta \/ AheadDelta) => Out.notified = <<>>

\* C16 case: a dispatch replaced a projection and called no listener
C16_Witness ==
    /\ Called
    /\ Projections(Store) # Projections(Pre)
    /\ Pre.listeners # <<>>
    /\ Out.notified = <<>>

\* C16 among dispatches that return normally
C16_NotifiedAfterCommitUnlessThrown ==
    ~Out.threw => C16_NotifiedAfterCommit

\* a listener was called after a flush that applied a buffered delta
C16_FlushedThenNotified ==
    /\ Called /\ ~Out.threw
    /\ Len(Out.applied) >= 2
    /\ Out.notified # <<>>

(***************************************************************************)
(* Vocabulary of the transport properties                                  *)
(***************************************************************************)
\* the sockets constructed by the step
OpenedSockets == {s \in 1..Len(sockets') : s > Len(sockets)}

\* the frames the client sent on socket s with the given action
SentFrames(s, action) ==
    {i \in 1..Len(sockets[s].sent) :
        /\ "action" \in DOMAIN sockets[s].sent[i]
        /\ sockets[s].sent[i].action = action}

\* C17: after disconnect() and until connect() is called again (the session
\* is marked as intentionally closed all along), no connection is opened by
\* a reconnect: a reconnect that an earlier unexpected close scheduled is
\* cancelled.
C17_NoReconnectAfterDisconnect ==
    [][(client.intentionalClose /\ client'.intentionalClose)
          => \A s \in OpenedSockets : ~promises'[sockets'[s].resolve].reconnect]_vars

\* disconnect() was called while a reconnect was scheduled
C17_Witness == client.intentionalClose /\ timers # <<>>

\* C17, the other half: disconnect() closes the socket with code 1000 and
\* forgets it
C17_DisconnectClosesSocket ==
    [][(~client.intentionalClose /\ client'.intentionalClose /\ client.ws # 0)
          => /\ client'.ws = 0
             /\ sockets'[client.ws].readyState \in {"CLOSING", "CLOSED"}
             /\ sockets[client.ws].readyState \in {"CONNECTING", "OPEN"}
                    => sockets'[client.ws].code = 1000]_vars

\* the acknowledgements <<s, i, snapshot_seq>> the step delivered: the
\* `subscribed` frame that answers the i-th frame sent on socket s
NewAcks ==
    UNION {{<<s, a[1], a[2]>> : a \in sockets'[s].acks \ sockets[s].acks} :
              s \in 1..Len(sockets)}

AckedKey(ack) ==
    subKey(sockets[ack[1]].sent[ack[2]].channel, sockets[ack[1]].sent[ack[2]].params)

PendingSubscribes(key) ==
    {p \in 1..Len(promises) :
        /\ promises[p].kind = "subscribe"
        /\ promises[p].status = "pending"
        /\ promises[p].key = key}

\* C20: when the `subscribed` frame of a key arrives, every subscribe call
\* of that key that awaits its acknowledgement resolves, no subscribe call
\* of another key does, and the registry holds the key with
\* lastSeq = snapshot_seq.
C20_AckResolvesSubscribes ==
    [][\A ack \in NewAcks :
          /\ \A p \in PendingSubscribes(AckedKey(ack)) : promises'[p].status = "resolved"
          /\ \A p \in 1..Len(promises) :
                 (promises[p].kind = "subscribe" /\ promises[p].key # AckedKey(ack))
                     => promises'[p].status = promises[p].status
          /\ SubIndex(client'.subscriptions, AckedKey(ack)) # 0
          /\ client'.subscriptions[SubIndex(client'.subscriptions, AckedKey(ack))].lastSeq
                 = ack[3]]_vars

\* two subscribe calls of one key await the acknowledgement
C20_Witness ==
    \E key \in {subKey("market_data", ParamsOf(symbol)) : symbol \in WsSymbols} :
        Cardinality(PendingSubscribes(key)) >= 2

\* C20 for the subscribe call the client registered last for the key
C20_AckResolvesLastSubscribe ==
    [][\A ack \in NewAcks :
          /\ MapHas(client.pendingSubs, AckedKey(ack))
                 => promises'[client.pendingSubs[AckedKey(ack)]].status = "resolved"
          /\ \A p \in 1..Len(promises) :
                 (promises[p].kind = "subscribe" /\ promises[p].key # AckedKey(ack))
                     => promises'[p].status = promises[p].status
          /\ SubIndex(client'.subscriptions, AckedKey(ack)) # 0
          /\ client'.subscriptions[SubIndex(client'.subscriptions, AckedKey(ack))].lastSeq
                 = ack[3]]_vars

\* the client has no connection: the socket it holds is closed
ConnectionLost == client.ws # 0 /\ sockets[client.ws].readyState = "CLOSED"

\* socket s carried a reconnect in which the re-subscribe of a stream failed:
\* the server answered its subscribe frame with an error, or not at all
\* before the connection dropped again
ResubscribeFailed(s) ==
    /\ sockets[s].greeted
    /\ sockets[s].prior # <<>>
    /\ sockets[s].readyState = "CLOSED"
    /\ \E i \in SentFrames(s, "subscribe") : \A seq \in AckSeqs : <<i, seq>> \notin sockets[s].acks

\* C19: a failed re-subscribe loses no subscription: when the connection is
\* lost, every stream the server acknowledged and nobody unsubscribed is in
\* the registry, from which the next reconnect re-subscribes
\* (_resubscribeAll reads this.subscriptions and nothing else).
C19_NoSubscriptionForgotten ==
    ConnectionLost => \A key \in wire.active : SubIndex(client.subscriptions, key) # 0

C19_Witness == \E s \in 1..Len(sockets) : ResubscribeFailed(s)

\* the frames sent on socket s that the server answers and has not answered
Unanswered(s) ==
    {i \in 1..Len(sockets[s].sent) :
        AnswersTo(sockets[s].sent[i]) # {} /\ i \notin sockets[s].answered}

FrameKey(frame) == subKey(frame.channel, frame.params)

\* socket s is the connection of a reconnect that succeeded and on which the
\* server has acknowledged every subscribe frame and answered every request
Resubscribed(s) ==
    /\ sockets[s].greeted
    /\ sockets[s].prior # <<>>
    /\ sockets[s].readyState = "OPEN"
    /\ client.ws = s
    /\ Unanswered(s) = {}
    /\ \A i \in SentFrames(s, "subscribe") : \E seq \in AckSeqs : <<i, seq>> \in sockets[s].acks

ResubscribeSent(s, sub) ==
    \E i \in SentFrames(s, "subscribe") : FrameKey(sockets[s].sent[i]) = sub.k

RecoverySent(s, sub) ==
    \E i \in SentFrames(s, "snapshot_since") :
        /\ FrameKey(sockets[s].sent[i]) = sub.k
        /\ sockets[s].sent[i].last_seq = sub.lastSeq

\* C18: on the connection of a successful reconnect the client has sent a
\* subscribe frame for every subscription of the registry it had when the
\* connection was lost, and a snapshot_since frame with the recorded lastSeq
\* for each of them whose lastSeq was not 0.
C18_ResubscribesWithCursor ==
    \A s \in 1..Len(sockets) :
        Resubscribed(s) =>
            \A j \in 1..Len(sockets[s].prior) :
                sockets[s].prior[j].k \in wire.active =>
                    /\ ResubscribeSent(s, sockets[s].prior[j])
                    /\ sockets[s].prior[j].lastSeq > 0
                           => RecoverySent(s, sockets[s].prior[j])

\* a reconnect re-subscribed a stream whose recorded lastSeq was not 0
C18_Witness ==
    \E s \in 1..Len(sockets) :
        /\ Resubscribed(s)
        /\ \E j \in 1..Len(sockets[s].prior) :
               /\ sockets[s].prior[j].lastSeq > 0
               /\ ResubscribeSent(s, sockets[s].prior[j])

\* every subscribe call that awaits its acknowledgement is the one the
\* client registered for its key
NoSubscribeSuperseded ==
    \A p \in 1..Len(promises) :
        (promises[p].kind = "subscribe" /\ promises[p].status = "pending")
            => /\ MapHas(client.pendingSubs, promises[p].key)
               /\ client.pendingSubs[promises[p].key] = p

\* C18 where no subscribe call was superseded by a later one for its key and
\* the recorded lastSeq is a number that Number() represents exactly
C18_ResubscribesUndisturbed ==
    \A s \in 1..Len(sockets) :
        (Resubscribed(s) /\ NoSubscribeSuperseded) =>
            \A j \in 1..Len(sockets[s].prior) :
                sockets[s].prior[j].k \in wire.active =>
                    /\ ResubscribeSent(s, sockets[s].prior[j])
                    /\ (/\ sockets[s].prior[j].lastSeq > 0
                        /\ sockets[s].prior[j].lastSeq < HugeSeq)
                           => RecoverySent(s, sockets[s].prior[j])

\* the recovery request of a re-subscribed stream carries another last_seq
\* than the recorded one
C18_RoundedCursor ==
    \E s \in 1..Len(sockets) :
        /\ Resubscribed(s)
        /\ \E j \in 1..Len(sockets[s].prior), i \in SentFrames(s, "snapshot_since") :
               /\ FrameKey(sockets[s].sent[i]) = sockets[s].prior[j].k
               /\ sockets[s].prior[j].lastSeq = HugeSeq
               /\ sockets[s].sent[i].last_seq # HugeSeq
               /\ ~RecoverySent(s, sockets[s].prior[j])

\* the deltas as live event frames, one _handleMessage each
RECURSIVE live(_, _, _)
live(W, s, events) ==
    IF events = <<>> THEN W
    ELSE live(handleMessage(W, s, events[1]), s, Tail(events))

\* the deltas as one snapshot_since_response
replayed(W, s, events) ==
    handleMessage(W, s, [type |-> "snapshot_since_response", channel |-> "market_data",
                         from_seq |-> events[1].sequence,
                         to_seq |-> events[Len(events)].sequence, events |-> events])

BtcKey == subKey("market_data", ParamsOf("BTC_USD"))

\* the store has just applied the snapshot of BTC_USD at sequence seq, on an
\* open connection whose BTC_USD subscription has followed the stream to seq
SnapshotAppliedAt(seq) ==
    /\ Called
    /\ Ev.source = "market_data" /\ Ev.event_type = "snapshot"
    /\ Ev.payload.symbol = "BTC_USD" /\ Ev.sequence = seq
    /\ MetaOf(Store, Key).lastSeq = seq
    /\ BufferOf(Store, Key) = <<>>
    /\ client.ws # 0
    /\ sockets[client.ws].readyState = "OPEN"
    /\ sockets[client.ws].greeted
    /\ SubIndex(client.subscriptions, BtcKey) # 0
    /\ client.subscriptions[SubIndex(client.subscriptions, BtcKey)].lastSeq = seq
    /\ ~client.recovering

SameOutcome(W1, W2) ==
    /\ Projections(W1.store) = Projections(W2.store)
    /\ MetaOf(W1.store, "market_data::BTC_USD").lastSeq
           = MetaOf(W2.store, "market_data::BTC_USD").lastSeq

\* C13: after the snapshot of a stream at sequence s, the deltas s+1..s+k
\* received as one replay batch leave the store with the same projections
\* and the same lastSeq as the same deltas received one by one as live event
\* frames.
C13_ReplayEqualsLive ==
    \A seq \in 1..HugeSeq, k \in 1..MaxReplay :
        SnapshotAppliedAt(seq) =>
            SameOutcome(replayed(World, client.ws, Deltas("BTC_USD", seq, seq + k)),
                        live(World, client.ws, Deltas("BTC_USD", seq, seq + k)))

C13_Witness == \E seq \in 1..HugeSeq : SnapshotAppliedAt(seq)

\* C13 when BTC_USD is the only subscription of the channel
C13_ReplayEqualsLiveOneStream ==
    \A seq \in 1..HugeSeq, k \in 1..MaxReplay :
        (SnapshotAppliedAt(seq) /\ Len(client.subscriptions) = 1) =>
            SameOutcome(replayed(World, client.ws, Deltas("BTC_USD", seq, seq + k)),
                        live(World, client.ws, Deltas("BTC_USD", seq, seq + k)))

C13_WitnessOneStream ==
    \E seq \in 1..HugeSeq :
        /\ SnapshotAppliedAt(seq) /\ Len(client.subscriptions) = 1
        /\ Projections(replayed(World, client.ws, Deltas("BTC_USD", seq, seq + 1)).store)
               # Projections(Store)

\* the subscribe frames <<s, i>> that the step answered with an `error` frame
NewRefusals ==
    UNION {{<<s, i>> : i \in {j \in sockets'[s].answered \ sockets[s].answered :
                                /\ j \in SentFrames(s, "subscribe")
                                /\ \A seq \in AckSeqs : <<j, seq>> \notin sockets'[s].acks}} :
              s \in 1..Len(sockets)}

RefusedKey(r) == FrameKey(sockets[r[1]].sent[r[2]])

\* C21: when the server answers a subscribe frame with an `error` frame
\* while the subscribe call of that key is outstanding, the call's promise is
\* rejected and its pending entry is removed.
C21_ErrorRejectsSubscribe ==
    [][\A r \in NewRefusals :
          MapHas(client.pendingSubs, RefusedKey(r))
              => /\ promises'[client.pendingSubs[RefusedKey(r)]].status = "rejected"
                 /\ ~MapHas(client'.pendingSubs, RefusedKey(r))]_vars

\* a subscribe frame was answered with an `error` frame and the subscribe
\* call of its key is outstanding
C21_Witness ==
    \E s \in 1..Len(sockets) :
        \E i \in SentFrames(s, "subscribe") \cap sockets[s].answered :
            /\ \A seq \in AckSeqs : <<i, seq>> \notin sockets[s].acks
            /\ MapHas(client.pendingSubs, FrameKey(sockets[s].sent[i]))
            /\ promises[client.pendingSubs[FrameKey(sockets[s].sent[i])]].status = "pending"

\* what the code does on the `error` frame: the promise and the pending
\* entry stay as they were
C21_ErrorLeavesSubscribePending ==
    [][\A r \in NewRefusals :
          MapHas(client.pendingSubs, RefusedKey(r))
              => /\ promises'[client.pendingSubs[RefusedKey(r)]].status = "pending"
                 /\ MapHas(client'.pendingSubs, RefusedKey(r))
                 /\ client'.pendingSubs[RefusedKey(r)] = client.pendingSubs[RefusedKey(r)]]_vars

(***************************************************************************)
(* subscribe(channel, params) with params of two members, which the caller *)
(* may write in either order.  The connection stays up.                    *)
(***************************************************************************)
BookParams ==
    {<<<<"symbol", "BTC_USD">>, <<"depth", "10">>>>,
     <<<<"depth", "10">>, <<"symbol", "BTC_USD">>>>}

SubscribeWith(params) == Call(subscribe(World, "market_data", params), {})

NextSub ==
    \/ Connect
    \/ \E params \in BookParams : SubscribeWith(params)
    \/ \E i \in 1..MaxSockets : TokenResolves(i)
    \/ \E s \in 1..MaxSockets : SocketOpens(s)
    \/ \E s \in 1..MaxSockets : OnMessage(s)

SpecSub == InitWs /\ [][NextSub]_vars

\* the step is a call of subscribe(); its promise is the last of promises'
SubscribeCalled ==
    /\ wire'.calls = wire.calls + 1
    /\ Len(promises') = Len(promises) + 1
    /\ promises'[Len(promises')].kind = "subscribe"

\* the registry holds a subscription of the channel and the parameters of key,
\* whatever the order its parameters were written in
Registered(subs, key) ==
    \E i \in 1..Len(subs) :
        /\ subs[i].key.channel = key[1]
        /\ Range(subs[i].key.params) = Range(key[2])

\* C22: subscribe() for a subscription the registry holds, with the
\* parameters in any order, resolves at once, sends no frame, registers no
\* pending entry and leaves the registry and its lastSeq as they were.
C22_SubscribeIdempotent ==
    [][(SubscribeCalled /\ Registered(client.subscriptions, promises'[Len(promises')].key))
          => /\ promises'[Len(promises')].status = "resolved"
             /\ sockets' = sockets
             /\ client'.pendingSubs = client.pendingSubs
             /\ client'.subscriptions = client.subscriptions
             /\ SubSeq(promises', 1, Len(promises)) = promises]_vars

\* subscribe() was called twice for a subscription of two parameters, the
\* second time once the registry held it: both calls resolved and the server
\* received one subscribe frame
C22_Witness ==
    /\ Len(sockets) = 1
    /\ Len(client.subscriptions) = 1
    /\ Len(client.subscriptions[1].key.params) = 2
    /\ Len(sockets[1].sent) = 1
    /\ Len(promises) = 3
    /\ promises[2].status = "resolved"
    /\ promises[3].status = "resolved"
    /\ wire.calls = 3

\* the sockets opened by a connect() call of the application that closed
\* before the server greeted them
ClosedUngreeted ==
    {s \in 1..Len(sockets) : /\ sockets[s].readyState = "CLOSED"
                             /\ ~sockets[s].greeted
                             /\ ~promises[sockets[s].resolve].reconnect}

\* C23: every connect() call settles; when its connection closes before
\* `connected` arrived, its promise is rejected.
C23_ConnectRejectedOnClose ==
    \A s \in ClosedUngreeted : promises[sockets[s].resolve].status = "rejected"

\* the connection of a connect() call closed before the server greeted it
C23_Witness == ClosedUngreeted # {}

\* what the code does: the promise of connect() resolves with `connected`
\* and is pending in every other state
C23_ConnectSettlesOnlyOnConnected ==
    /\ \A s \in 1..Len(sockets) :
           promises[sockets[s].resolve].status =
               IF sockets[s].greeted THEN "resolved" ELSE "pending"
    /\ \A p \in 1..Len(promises) :
           (promises[p].kind = "connect" /\ promises[p].status # "pending")
               => \E s \in 1..Len(sockets) : sockets[s].resolve = p

\* the sockets that close in the step
ClosedNow ==
    {s \in 1..Len(sockets) : /\ sockets[s].readyState # "CLOSED"
                             /\ sockets'[s].readyState = "CLOSED"}

\* C24: a close of a socket while intentionalClose is false, in any state of
\* the connection, schedules exactly one reconnect, and none while
\* intentionalClose is true; when the reconnect timer fires a connection
\* attempt starts that first obtains a token and then opens a new socket.
C24_CloseSchedulesOneReconnect ==
    [][/\ ClosedNow # {}
          => IF client.intentionalClose
             THEN timers' = timers
             ELSE /\ Len(timers') = Len(timers) + 1
                  /\ SubSeq(timers', 1, Len(timers)) = timers
                  /\ tokens' = tokens
       /\ Len(timers') > Len(timers) => ClosedNow # {}
       /\ Len(timers') < Len(timers)
          => /\ Len(timers') = Len(timers) - 1
             /\ Len(tokens') = Len(tokens) + 1
             /\ promises'[tokens'[Len(tokens')].promise].status = "pending"
             /\ promises'[tokens'[Len(tokens')].promise].reconnect
             /\ sockets' = sockets
       /\ Len(tokens') < Len(tokens)
          => /\ Len(sockets') = Len(sockets) + 1
             /\ sockets'[Len(sockets')].readyState = "CONNECTING"
             /\ client'.ws = Len(sockets')]_vars

\* a connection closed before the server greeted it, and the reconnect that
\* close scheduled opened a new socket
C24_Witness ==
    /\ Len(sockets) = 2
    /\ sockets[1].readyState = "CLOSED"
    /\ ~sockets[1].greeted
    /\ promises[sockets[2].resolve].reconnect
    /\ timers = <<>>
    /\ ~client.intentionalClose

\* a socket closed while intentionalClose was true and no reconnect is
\* scheduled
C24_WitnessIntentional ==
    /\ Len(sockets) = 1
    /\ sockets[1].readyState = "CLOSED"
    /\ client.intentionalClose
    /\ timers = <<>> /\ tokens = <<>>

\* the connections a ping can arrive on
Greeted == {s \in 1..Len(sockets) : sockets[s].readyState = "OPEN" /\ sockets[s].greeted}

\* the client after a ping arrived on socket s
pinged(s) == handleMessage(World, s, [type |-> "ping"])

PongSent(s) ==
    /\ pinged(s).c.heartbeatTimer
    /\ pinged(s).sockets[s].sent = Append(sockets[s].sent, [type |-> "pong"])

\* the liveness timer, when armed, watches an open connection, which its
\* expiry closes with code 4000
TimerWatchesConnection ==
    client.heartbeatTimer
        => /\ client.ws # 0
           /\ sockets[client.ws].readyState = "OPEN"
           /\ close(World, client.ws, 4000).sockets[client.ws].code = 4000

\* C25: a ping is answered with a pong on its connection and restarts the
\* liveness timer; the expiry of the timer closes the current connection with
\* code 4000; no liveness timer is armed after disconnect().
C25_Heartbeat ==
    /\ \A s \in Greeted : PongSent(s)
    /\ TimerWatchesConnection
    /\ client.intentionalClose => ~client.heartbeatTimer

\* disconnect() was called and a connection the server greeted is open
C25_Witness == client.intentionalClose /\ Greeted # {}

\* the connection is the only one the client constructed, of its only
\* connect() call, and no disconnect() came before the socket was constructed
OnlyConnection ==
    /\ Len(sockets) = 1
    /\ tokens = <<>>
    /\ Len(promises) >= 1 /\ \A p \in 2..Len(promises) : promises[p].kind # "connect"
    /\ wire.closes = 0
    /\ client.intentionalClose => client.ws = 0

\* what holds: on the only connection of a client that was connected once,
\* the ping is answered on it and the armed timer watches it until
\* disconnect(), after which no timer is armed.
C25_HeartbeatOneConnection ==
    OnlyConnection
        => /\ \A s \in Greeted : client.ws = s => PongSent(s)
           /\ TimerWatchesConnection
           /\ client.intentionalClose => ~client.heartbeatTimer

(***************************************************************************)
(* A client whose connections keep failing: every close draws its own      *)
(* Math.random(), and the server may greet a connection before it fails.   *)
(* The application subscribes to nothing and the server pushes nothing.    *)
(***************************************************************************)
MaxAttempt == 7
MaxRetrySockets == 7

\* getToken() resolves for the i-th waiting _connect
TokenArrives(i) ==
    /\ i \in 1..Len(tokens)
    /\ Len(sockets) < MaxRetrySockets
    /\ WsCommit(connectOpen(
           [World EXCEPT !.tokens = SubSeq(@, 1, i - 1) \o SubSeq(@, i + 1, Len(@))],
           tokens[i]))
    /\ UNCHANGED wire

\* the connection of socket s fails or is lost; ws.onclose runs
ConnectionFails(s, random) ==
    /\ s \in 1..Len(sockets)
    /\ sockets[s].readyState \in {"CONNECTING", "OPEN"}
    /\ client.reconnectAttempt < MaxAttempt
    /\ WsCommit(onclose([World EXCEPT !.sockets[s].readyState = "CLOSED"], random))
    /\ UNCHANGED wire

\* the server greets the connection of socket s and sends nothing else
Greets(s) ==
    /\ s \in 1..Len(sockets)
    /\ sockets[s].readyState = "OPEN"
    /\ \E d \in Greeting(s) :
           WsCommit(handleMessage([World EXCEPT !.sockets[s] = d.socket], s, d.msg))
    /\ UNCHANGED wire

\* the one connect() call of the application
ConnectOnce == promises = <<>> /\ Connect

NextRetry ==
    \/ ConnectOnce
    \/ \E i \in 1..MaxRetrySockets : TokenArrives(i)
    \/ \E s \in 1..MaxRetrySockets : SocketOpens(s)
    \/ \E s \in 1..MaxRetrySockets : \E random \in Randoms : ConnectionFails(s, random)
    \/ \E i \in 1..MaxRetrySockets : TimerFires(i)
    \/ \E s \in 1..MaxRetrySockets : Greets(s)

SpecRetry == InitWs /\ [][NextRetry]_vars

\* the base delay of the protocol's table: 500, 1000, 2000, 4000, 8000, then
\* 16000 from the sixth reconnect on
BaseDelay(n) == IF n >= 5 THEN 16000 ELSE 500 * Pow2(n)

\* C26: a scheduled reconnect takes the attempt counter n, waits a delay
\* that is never negative and within 20% of min(500 * 2^n, 16000) ms, and
\* increments the counter; `connected` resets the counter to 0; nothing else
\* changes it.
C26_Backoff ==
    [][/\ Len(timers') > Len(timers)
          => /\ timers'[Len(timers')].attempt = client.reconnectAttempt
             /\ client'.reconnectAttempt = client.reconnectAttempt + 1
             /\ timers'[Len(timers')].delay >= 0
             /\ 10 * timers'[Len(timers')].delay >= 8 * BaseDelay(client.reconnectAttempt)
             /\ 10 * timers'[Len(timers')].delay <= 12 * BaseDelay(client.reconnectAttempt)
       /\ (\E s \in 1..Len(sockets) : ~sockets[s].greeted /\ sockets'[s].greeted)
          => client'.reconnectAttempt = 0
       /\ client'.reconnectAttempt # client.reconnectAttempt
          => \/ Len(timers') > Len(timers)
             \/ \E s \in 1..Len(sockets) : ~sockets[s].greeted /\ sockets'[s].greeted]_vars

\* the seventh consecutive reconnect is scheduled with the capped base and
\* the largest downward jitter
C26_Witness ==
    \E i \in 1..Len(timers) : timers[i].attempt = 6 /\ timers[i].delay = 12800

\* after failures and a `connected`, the next reconnect is scheduled with
\* counter 0
C26_WitnessReset ==
    /\ \E s \in 1..Len(sockets) : sockets[s].greeted /\ sockets[s].readyState = "CLOSED"
    /\ Len(sockets) >= 3
    /\ \E i \in 1..Len(timers) : timers[i].attempt = 0 /\ timers[i].delay = 599

\* the client after event arrived as a frame on socket s
received(s, event) == handleMessage(World, s, event)

\* C27: every frame with event_id and sequence is forwarded exactly once to
\* the handlers of its channel, whatever the cursors of the subscriptions and
\* whether or not a recovery is in progress.
C27_EveryEventForwarded ==
    \A s \in Greeted : \A event \in WsEvents :
        /\ received(s, event).steps = steps + 1
        /\ received(s, event).last.event = event

\* an event arrived on a connection that was never lost, and the handlers
\* were not called: the client asked for a recovery instead
C27_Witness ==
    /\ wire.frames = 1
    /\ wire.closes = 0
    /\ steps = 0
    /\ client.recovering
    /\ \E s \in Greeted : SentFrames(s, "snapshot_since") # {}

\* what the code does: the event is forwarded once, or not at all when it is
\* ahead of the cursor of a subscription of its channel and no recovery is in
\* progress, in which case the client asks for a recovery
C27_ForwardedUnlessGap ==
    \A s \in Greeted : \A event \in WsEvents :
        IF /\ ~client.recovering
           /\ \E i \in 1..Len(client.subscriptions) :
                  /\ client.subscriptions[i].key.channel = event.source
                  /\ event.sequence > client.subscriptions[i].lastSeq + 1
                  /\ \A j \in 1..(i - 1) :
                         client.subscriptions[j].key.channel = event.source
                             => event.sequence <= client.subscriptions[j].lastSeq + 1
        THEN /\ received(s, event).steps = steps
             /\ received(s, event).c.recovering
        ELSE /\ received(s, event).steps = steps + 1
             /\ received(s, event).last.event = event

\* C28: an `error` frame calls the registered error handler with the code
\* and the message of the frame and changes nothing else: the registry, the
\* pending subscriptions, the connection and the recovering flag stay as
\* they were.
C28_ErrorFrameOnlyCallsHandler ==
    [][NewRefusals # {}
          => /\ client' = [client EXCEPT !.errors =
                              IF client.onErrorHandler
                              THEN Append(@, <<"RATE_LIMIT_EXCEEDED", "slow down">>)
                              ELSE @]
             /\ \A s \in 1..Len(sockets) :
                    /\ sockets'[s].readyState = sockets[s].readyState
                    /\ sockets'[s].sent = sockets[s].sent
                    /\ sockets'[s].code = sockets[s].code
             /\ Len(sockets') = Len(sockets)
             /\ UNCHANGED <<promises, tokens, timers, resubs>>
             /\ UNCHANGED storeVars]_vars

\* the handler received an `error` frame while a subscription was registered
\* and a recovery was in progress
C28_Witness ==
    /\ client.errors = <<<<"RATE_LIMIT_EXCEEDED", "slow down">>>>
    /\ client.subscriptions # <<>>
    /\ client.recovering

\* the frames the client sends in the step
NewFrames ==
    UNION {{sockets'[s].sent[i] : i \in (Len(sockets[s].sent) + 1)..Len(sockets'[s].sent)} :
              s \in 1..Len(sockets)}

\* the recovery requests of the last dispatch call of the step
NewRequests == IF steps' > steps THEN Range(last'.out.requests) ELSE {}

\* the subscription of the stream of request r is active: acknowledged by the
\* server and held by the registry
RequestActive(r) ==
    /\ subKey(r.channel, ParamsSeq(r.params)) \in wire.active
    /\ SubIndex(client.subscriptions, subKey(r.channel, ParamsSeq(r.params))) # 0

\* this.ws is an open socket, so that _send sends
Connected == client.ws # 0 /\ sockets[client.ws].readyState = "OPEN"

\* C29: while the client is connected, when the store emits a recovery
\* request with sinceSeq > 0 for a stream whose subscription is active, the
\* client sends a snapshot_since frame of that channel and those params with
\* that sequence; on a request with sinceSeq = 0 it sends a fresh subscribe
\* frame.
C29_RequestsBecomeFrames ==
    [][\A r \in NewRequests :
          Connected =>
          /\ (r.sinceSeq > 0 /\ RequestActive(r))
                => \E msg \in NewFrames :
                       /\ "action" \in DOMAIN msg /\ msg.action = "snapshot_since"
                       /\ msg.channel = r.channel
                       /\ msg.params = ParamsSeq(r.params)
                       /\ msg.last_seq = r.sinceSeq
          /\ r.sinceSeq = 0
                => \E msg \in NewFrames :
                       /\ "action" \in DOMAIN msg /\ msg.action = "subscribe"
                       /\ msg.channel = r.channel
                       /\ msg.params = ParamsSeq(r.params)]_vars

\* the store asked for a recovery from a sequence above 0 for a stream whose
\* subscription is active
C29_Witness ==
    /\ steps > 0
    /\ \E i \in 1..Len(last.out.requests) :
           /\ last.out.requests[i].sinceSeq > 0
           /\ RequestActive(last.out.requests[i])
    /\ Connected

\* the same for a request with sinceSeq = 0
C29_WitnessFresh ==
    /\ steps > 0
    /\ \E i \in 1..Len(last.out.requests) :
           /\ last.out.requests[i].sinceSeq = 0
           /\ RequestActive(last.out.requests[i])
    /\ Connected

\* what the code does: the listener calls subscribe() whatever sinceSeq is,
\* so no step with a dispatch sends a snapshot_since frame, and a request for
\* a subscription the registry holds sends nothing
C29_RequestsBecomeSubscribeCalls ==
    [][/\ steps' > steps
          => \A msg \in NewFrames : "action" \in DOMAIN msg => msg.action = "subscribe"
       /\ \A r \in NewRequests :
              (RequestActive(r) /\ steps' = steps + 1) => NewFrames = {}]_vars

(***************************************************************************)
(* Gap recovery with a server that keeps the sequence contract of          *)
(* ws-protocol.md: it acknowledges every subscribe with the stream's       *)
(* current sequence and the snapshot at that sequence, numbers the deltas  *)
(* of a stream consecutively, and answers every snapshot_since with the    *)
(* deltas from last_seq + 1 to the stream's current sequence.  The network *)
(* may lose a delta that is not the last one of its stream.  wire.emitted  *)
(* is the current sequence of each stream, wire.lost counts the losses.    *)
(***************************************************************************)
MaxEmit == 3
MaxLost == 1

StreamKey(symbol) == subKey("market_data", ParamsOf(symbol))

\* the server's frames in answer to the i-th frame of socket s
LiveAnswer(msg) ==
    IF "action" \in DOMAIN msg /\ msg.action = "subscribe"
    THEN <<[type |-> "subscribed", channel |-> msg.channel, params |-> msg.params,
            snapshot_seq |-> wire.emitted[SymbolOf(msg.params)]],
           makeSnapshotOf(SymbolOf(msg.params), wire.emitted[SymbolOf(msg.params)])>>
    ELSE IF "action" \in DOMAIN msg /\ msg.action = "snapshot_since"
    THEN <<[type |-> "snapshot_since_response", channel |-> msg.channel,
            from_seq |-> msg.last_seq + 1, to_seq |-> wire.emitted[SymbolOf(msg.params)],
            events |-> Deltas(SymbolOf(msg.params), msg.last_seq,
                              wire.emitted[SymbolOf(msg.params)])]>>
    ELSE <<>>

LiveGreeting(s) ==
    {[msgs |-> <<d.msg>>, socket |-> d.socket, wire |-> wire] : d \in Greeting(s)}

LiveAnswers(s) ==
    IF ~sockets[s].greeted THEN {}
    ELSE {[msgs |-> LiveAnswer(sockets[s].sent[i]),
           socket |-> [sockets[s] EXCEPT !.answered = @ \cup {i}],
           wire |-> [wire EXCEPT !.active =
                        @ \cup (IF LiveAnswer(sockets[s].sent[i]) = <<>> THEN {}
                                ELSE Acknowledged(LiveAnswer(sockets[s].sent[i])[1]))]] :
              i \in (1..Len(sockets[s].sent)) \ sockets[s].answered}

\* the next delta of a stream the server holds a subscription of
LiveEvents(s) ==
    IF ~sockets[s].greeted THEN {}
    ELSE {[msgs |-> <<makeDeltaOf(symbol, wire.emitted[symbol] + 1)>>,
           socket |-> sockets[s],
           wire |-> [wire EXCEPT !.emitted[symbol] = @ + 1]] :
              symbol \in {y \in WsSymbols : /\ StreamKey(y) \in wire.active
                                            /\ wire.emitted[y] < MaxEmit}}

\* ws.onmessage of socket s for each frame the server sent, in order
ServerSends(s) ==
    /\ s \in 1..Len(sockets)
    /\ sockets[s].readyState = "OPEN"
    /\ \E d \in LiveGreeting(s) \cup LiveAnswers(s) \cup LiveEvents(s) :
           /\ WsCommit(live([World EXCEPT !.sockets[s] = d.socket], s, d.msgs))
           /\ wire' = d.wire

\* the server emits the next delta of a stream and the network loses it
Loses(symbol) ==
    /\ StreamKey(symbol) \in wire.active
    /\ wire.emitted[symbol] + 1 < MaxEmit
    /\ wire.lost < MaxLost
    /\ wire' = [wire EXCEPT !.emitted[symbol] = @ + 1, !.lost = @ + 1]
    /\ UNCHANGED <<client, sockets, promises, tokens, timers, resubs>>
    /\ UNCHANGED storeVars

InitLive ==
    /\ client = NewClient
    /\ sockets = <<>>
    /\ promises = <<>>
    /\ tokens = <<>>
    /\ timers = <<>>
    /\ resubs = <<>>
    /\ wire = [frames |-> 0, calls |-> 0, closes |-> 0, active |-> {},
               emitted |-> [symbol \in WsSymbols |-> 1], lost |-> 0]
    /\ state = [orderbooks |-> <<>>, tickers |-> <<>>, trades |-> <<>>, account |-> <<>>,
                metrics |-> [events_ignored |-> 0, gaps_detected |-> 0,
                             buffer_size_by_stream |-> <<>>]]
    /\ seqMeta = <<>>
    /\ deltaBuffers = <<>>
    /\ listeners = <<1>>
    /\ snapshotListeners = <<1>>
    /\ steps = 0
    /\ last = [event |-> <<>>, pre |-> <<>>, out |-> NoTrace]

\* what happens without the application: the token arrives, the handshake
\* completes, the server sends what it has to send
Scheduled ==
    \/ \E i \in 1..MaxSockets : TokenResolves(i)
    \/ \E s \in 1..MaxSockets : SocketOpens(s)
    \/ \E s \in 1..MaxSockets : ServerSends(s)

NextLive ==
    \/ ConnectOnce
    \/ \E symbol \in WsSymbols : Subscribe(symbol)
    \/ \E symbol \in WsSymbols : Loses(symbol)
    \/ Scheduled

SpecLive == InitLive /\ [][NextLive]_vars /\ WF_vars(Scheduled)

\* the store has followed the stream to the sequence the server emitted last
InSync(symbol) ==
    /\ MetaOf(Store, "market_data::" \o symbol).lastSeq = wire.emitted[symbol]
    /\ BufferOf(Store, "market_data::" \o symbol) = <<>>

\* nothing is left to happen without the application: no token is awaited,
\* no handshake is under way, and on every open connection the server has
\* greeted, answered every frame and emitted every delta
Quiet ==
    /\ tokens = <<>>
    /\ \A s \in 1..Len(sockets) :
           /\ sockets[s].readyState # "CONNECTING"
           /\ sockets[s].readyState = "OPEN"
                  => /\ sockets[s].greeted
                     /\ sockets[s].answered = 1..Len(sockets[s].sent)
                     /\ \A symbol \in WsSymbols :
                            StreamKey(symbol) \in wire.active
                                => wire.emitted[symbol] = MaxEmit

Subscribed == {symbol \in WsSymbols : StreamKey(symbol) \in wire.active}

\* C30: with the transport wired to the store, a server that keeps the
\* sequence contract and answers every snapshot_since, and fair scheduling,
\* gap recovery completes: once nothing is left to happen, the store holds,
\* for every subscribed stream, the latest sequence the server emitted and an
\* empty buffer, whatever deltas were lost on the way.
C30_RecoveryCompletes == Quiet => \A symbol \in Subscribed : InSync(symbol)

\* a delta of a subscribed stream was lost, the stream has ended and nothing
\* is left to happen
C30_Witness ==
    /\ wire.lost > 0
    /\ Quiet
    /\ Subscribed # {}
    /\ \A symbol \in Subscribed : wire.emitted[symbol] = MaxEmit

\* a quiet state is final but for the application: the only steps that
\* leave it are calls of the application and losses
C30_QuietIsFinal ==
    [][Quiet => (wire'.calls = wire.calls + 1 \/ wire'.lost = wire.lost + 1)]_vars

\* what holds: with one stream subscribed, recovery completes
C30_RecoveryCompletesOneStream ==
    (Quiet /\ Cardinality(Subscribed) = 1 /\ Len(client.subscriptions) = 1)
        => \A symbol \in Subscribed : InSync(symbol)

\* deltas were lost on the only subscribed stream and the store caught up
C30_WitnessOneStream ==
    /\ C30_Witness
    /\ Cardinality(Subscribed) = 1
    /\ \A symbol \in Subscribed : InSync(symbol)

(***************************************************************************)
(* C31                                                                     *)
(***************************************************************************)
\* the buffer in ascending sequence order, entries of one sequence in the
\* order they were buffered
FirstLowest(buffer) ==
    CHOOSE i \in 1..Len(buffer) :
        /\ \A j \in 1..Len(buffer) : buffer[i].sequence <= buffer[j].sequence
        /\ \A j \in 1..(i - 1) : buffer[j].sequence > buffer[i].sequence

RECURSIVE Ascending(_)
Ascending(buffer) ==
    IF buffer = <<>> THEN <<>>
    ELSE <<buffer[FirstLowest(buffer)]>>
         \o Ascending(SubSeq(buffer, 1, FirstLowest(buffer) - 1)
                      \o SubSeq(buffer, FirstLowest(buffer) + 1, Len(buffer)))

\* the flush as the claim words it, from entry i of the ascending buffer with
\* the stream at meta: the number of entries removed, the ids applied and the
\* stream's meta at the stop point
RECURSIVE FlushAsClaimed(_, _, _, _)
FlushAsClaimed(buffer, meta, i, applied) ==
    IF i > Len(buffer) THEN [removed |-> i - 1, applied |-> applied, meta |-> meta]
    ELSE IF \/ buffer[i].event_id \in Range(meta.seenIds)
            \/ buffer[i].sequence <= meta.lastSeq
    THEN FlushAsClaimed(buffer, meta, i + 1, applied)
    ELSE IF buffer[i].sequence = meta.lastSeq + 1
    THEN FlushAsClaimed(buffer, recordEvent(buffer[i], meta), i + 1,
                        Append(applied, buffer[i].event_id))
    ELSE [removed |-> i - 1, applied |-> applied, meta |-> meta]

\* the dispatch call applied its event and flushed the stream's buffer
Flushed == Called /\ Out.applied # <<>> /\ PreBuffer # <<>>

\* the stream's meta when the flush starts
MetaAtFlush ==
    IF Ev.event_type = "snapshot"
    THEN [recordEvent(Ev, PreMeta) EXCEPT !.lastSeq = Ev.sequence]
    ELSE recordEvent(Ev, PreMeta)

Expected == FlushAsClaimed(Ascending(PreBuffer), MetaAtFlush, 1, <<>>)

\* C31: a flush scans the buffered deltas in ascending sequence order,
\* discards duplicates, applies the entry at lastSeq + 1 and stops at the
\* first entry that leaves a gap; exactly the entries before the stop point
\* are removed, every entry left is above lastSeq + 1, no snapshot request
\* is emitted and gaps_detected does not change.
C31_FlushInOrderUpToGap ==
    Flushed =>
        /\ PostBuffer = SubSeq(Ascending(PreBuffer), Expected.removed + 1, Len(PreBuffer))
        /\ [i \in 1..(Len(Out.applied) - 1) |-> Out.applied[i + 1].event_id]
               = Expected.applied
        /\ PostMeta = Expected.meta
        /\ \A i \in 1..Len(PostBuffer) : PostBuffer[i].sequence > PostMeta.lastSeq + 1
        /\ Out.requests = <<>>
        /\ Metrics.gaps_detected = PreMetrics.gaps_detected

\* a flush of a buffer that was not in ascending order applied one entry and
\* stopped at the gap before the other
C31_Witness ==
    /\ Flushed
    /\ Len(PreBuffer) = 2
    /\ PreBuffer[1].sequence > PreBuffer[2].sequence
    /\ Len(Out.applied) = 2
    /\ Len(PostBuffer) = 1

\* a flush discarded a duplicate
C31_WitnessDiscard ==
    /\ Flushed
    /\ Expected.removed > Len(Expected.applied)

\* what the code does: the claim holds of every flush that returns
C31_FlushInOrderUpToGapUnlessThrown ==
    ~Out.threw => C31_FlushInOrderUpToGap

\* a flush threw at the entry it had to apply and left it in the buffer
C31_WitnessThrown ==
    /\ Flushed
    /\ Out.threw
    /\ \E i \in 1..Len(PostBuffer) : PostBuffer[i].sequence = PostMeta.lastSeq + 1

(***************************************************************************)
(* C32                                                                     *)
(***************************************************************************)
\* the domain key of an event as the claim words it
KeyAsClaimed(event) ==
    IF event.source = "account" THEN "account"
    ELSE event.source \o "::" \o event.payload.symbol

\* the streams of the store: a domain key and the projection it feeds
Streams ==
    {[key |-> source \o "::" \o symbol, source |-> source, symbol |-> symbol] :
        source \in {"market_data", "trades"}, symbol \in WsSymbols}
    \cup {[key |-> "account", source |-> "account", symbol |-> ""]}

Entry(map, key) == IF MapHas(map, key) THEN <<map[key]>> ELSE <<>>

StreamState(S, stream) ==
    [meta       |-> Entry(S.seqMeta, stream.key),
     buffer     |-> Entry(S.deltaBuffers, stream.key),
     size       |-> Entry(S.state.metrics.buffer_size_by_stream, stream.key),
     projection |-> CASE stream.source = "market_data" ->
                            <<Entry(S.state.orderbooks, stream.symbol),
                              Entry(S.state.tickers, stream.symbol)>>
                      [] stream.source = "trades" ->
                            <<Entry(S.state.trades, stream.symbol)>>
                      [] OTHER -> <<S.state.account>>]

TrackedKeys(S) ==
    DOMAIN S.seqMeta \cup DOMAIN S.deltaBuffers
        \cup DOMAIN S.state.metrics.buffer_size_by_stream

\* the step from S0 to S1 by a dispatch of event touched the event's stream only
Isolated(S0, S1, event) ==
    /\ \A stream \in Streams :
           stream.key # KeyAsClaimed(event)
               => StreamState(S1, stream) = StreamState(S0, stream)
    /\ TrackedKeys(S1) \subseteq TrackedKeys(S0) \cup {KeyAsClaimed(event)}
    /\ TrackedKeys(S1) \subseteq {stream.key : stream \in Streams}
    /\ \A i \in 1..Len(S1.out.requests) :
           /\ S1.out.requests[i].channel = event.source
           /\ event.source # "account"
                  => S1.out.requests[i].params = [symbol |-> event.payload.symbol]

\* the events of a second symbol on the channels of the first
makeTradeOf(symbol, seq) ==
    [makeTrade(seq) EXCEPT !.payload.symbol = symbol,
                           !.event_id = <<symbol, "trade", seq>>]

OtherSymbolEvents ==
    {makeSnapshotOf("ETH_USD", seq) : seq \in 1..MaxSideSeq}
    \cup {makeDeltaOf("ETH_USD", seq) : seq \in 1..MaxSeq}
    \cup {makeTradeOf("ETH_USD", seq) : seq \in 1..MaxSideSeq}

\* the dispatch just made touched its own stream only
C32_LastDispatchIsolated == Called => Isolated(Pre, Store, Ev)

\* C32: a dispatch of an event with domain key K ("<channel>::<symbol>" for
\* market_data and trades, "account" for account events) leaves the lastSeq,
\* seenIds, buffer and projection of every other key unchanged and raises no
\* snapshot request for another key; this holds of the dispatch just made
\* and of any event of a second symbol dispatched next.
C32_KeysIsolated ==
    /\ Called => Isolated(Pre, Store, Ev)
    /\ \A other \in OtherSymbolEvents :
           \A S1 \in {dispatch(Store, other)} : Isolated(Store, S1, other)

\* a trade was applied while the market_data stream of the same symbol had an
\* applied snapshot and a buffered delta, which an event of a second symbol
\* dispatched next would buffer behind a gap of its own
C32_Witness ==
    /\ Called
    /\ Key = "trades::BTC_USD"
    /\ Out.applied # <<>>
    /\ MetaOf(Store, "market_data::BTC_USD").lastSeq > 0
    /\ BufferOf(Store, "market_data::BTC_USD") # <<>>
    /\ BufferOf(dispatch(Store, makeDeltaOf("ETH_USD", 3)), "market_data::ETH_USD") # <<>>

(***************************************************************************)
(* C33                                                                     *)
(***************************************************************************)
\* the last n entries of a sequence
LastOf(q, n) == IF Len(q) > n THEN SubSeq(q, Len(q) - n + 1, Len(q)) ELSE q

\* the ids the dispatch call applied, in the order it applied them
AppliedIds == [i \in 1..Len(Out.applied) |-> Out.applied[i].event_id]

\* the ids of a sequence that are not in a set, in order
RECURSIVE Without(_, _)
Without(q, seen) ==
    IF q = <<>> THEN <<>>
    ELSE IF Head(q) \in seen THEN Without(Tail(q), seen)
    ELSE <<Head(q)>> \o Without(Tail(q), seen \cup {Head(q)})

\* what the code does: the set holds at most MAX_SEEN_IDS ids, none twice, and
\* a dispatch appends the ids it applied that the set did not hold and then
\* drops entries from the front, the oldest insertions, down to the cap
C33_CappedOldestInsertedFirst ==
    /\ \A k \in DOMAIN seqMeta :
           /\ Len(seqMeta[k].seenIds) <= MAX_SEEN_IDS
           /\ \A i, j \in 1..Len(seqMeta[k].seenIds) :
                  seqMeta[k].seenIds[i] = seqMeta[k].seenIds[j] => i = j
    /\ Called =>
           PostMeta.seenIds =
               LastOf(PreMeta.seenIds \o Without(AppliedIds, Range(PreMeta.seenIds)),
                      MAX_SEEN_IDS)

\* the id applied last by the dispatch just made is still held after any
\* further dispatch on the stream that applies one more event
RecentRetained ==
    (Called /\ AppliedIds # <<>>) =>
        \A event \in {e \in Events : domainKey(e) = Key} :
            \A S1 \in {dispatch(Store, event)} :
                Len(S1.out.applied) = 1 =>
                    {AppliedIds[Len(AppliedIds)], event.event_id}
                        \subseteq Range(MetaOf(S1, Key).seenIds)

\* C33: after every dispatch the seenIds of every stream holds at most
\* MAX_SEEN_IDS ids; over the cap entries are removed oldest first until the
\* size is the cap, and the most recently applied ids are the ones retained
\* (MAX_SEEN_IDS being 2 here: the id applied last and the one applied next).
C33_SeenIdsBounded ==
    /\ C33_CappedOldestInsertedFirst
    /\ RecentRetained

\* a dispatch applied two events to a stream whose set was full: both of the
\* older ids were evicted
C33_Witness ==
    /\ Called
    /\ Len(PreMeta.seenIds) = MAX_SEEN_IDS
    /\ Len(AppliedIds) = 2
    /\ PostMeta.seenIds = AppliedIds
    /\ Range(PreMeta.seenIds) \cap Range(PostMeta.seenIds) = {}

\* a snapshot whose id was the oldest of a full set was applied again: the
\* next event applied evicts it
C33_WitnessReapplied ==
    /\ Called
    /\ AppliedIds = <<Ev.event_id>>
    /\ Len(PostMeta.seenIds) = MAX_SEEN_IDS
    /\ PostMeta.seenIds[1] = Ev.event_id

(***************************************************************************)
(* C34                                                                     *)
(***************************************************************************)
\* a store on which nothing was dispatched, with the listeners of this one
FreshStore ==
    [Store EXCEPT
        !.state = [orderbooks |-> <<>>, tickers |-> <<>>, trades |-> <<>>,
                   account |-> <<>>,
                   metrics |-> [events_ignored |-> 0, gaps_detected |-> 0,
                                buffer_size_by_stream |-> <<>>]],
        !.seqMeta = <<>>,
        !.deltaBuffers = <<>>]

\* the store after dispatching the events of a sequence one after the other
RECURSIVE DispatchAll(_, _)
DispatchAll(S, events) ==
    IF events = <<>> THEN S
    ELSE DispatchAll([dispatch(S, Head(events)) EXCEPT !.out = NoTrace], Tail(events))

\* the snapshot at s followed by the deltas s + 1 .. s + k in order
Recovery(s, k) == <<makeSnapshot(s)>> \o [i \in 1..k |-> makeDelta(s + i)]

Recoveries == {Recovery(s, k) : s \in 1..MaxSeq, k \in 0..MAX_BUFFER_SIZE}

BookKey == "market_data::BTC_USD"

BookProjection(S) == <<Entry(S.state.orderbooks, "BTC_USD"), Entry(S.state.tickers, "BTC_USD")>>

\* after the recovery the stream stands at its last event with nothing at or
\* below it buffered
RecoveredTo(S, seq) ==
    /\ MetaOf(S, BookKey).lastSeq = seq
    /\ \A i \in 1..Len(BufferOf(S, BookKey)) : BufferOf(S, BookKey)[i].sequence > seq

\* C34: after any dispatch history on a stream, later deltas already applied
\* or buffered included, dispatching the snapshot at s and then the deltas
\* s+1 .. s+k in order leaves lastSeq = s+k, no buffered event at or below
\* s+k, and the projection a fresh store has after the same snapshot and
\* deltas.
C34_SnapshotResynchronises ==
    \A events \in Recoveries :
        /\ RecoveredTo(DispatchAll(Store, events), events[Len(events)].sequence)
        /\ BookProjection(DispatchAll(Store, events))
               = BookProjection(DispatchAll(FreshStore, events))

\* the least the claim asks of the cursor: the stream has caught up with the
\* last delta of the recovery (a buffered delta above it may have been flushed)
C34_CursorCatchesUp ==
    \A events \in Recoveries :
        MetaOf(DispatchAll(Store, events), BookKey).lastSeq
            >= events[Len(events)].sequence

\* the stream has applied the delta at 3 and still holds its id; the snapshot
\* at 2 is accepted and the delta at 3 dispatched after it is ignored
C34_Witness ==
    /\ Called
    /\ MetaOf(Store, BookKey).lastSeq = 3
    /\ SeenHas(MetaOf(Store, BookKey).seenIds, EventId("delta", 3))
    /\ MetaOf(DispatchAll(Store, Recovery(2, 0)), BookKey).lastSeq = 2
    /\ MetaOf(DispatchAll(Store, Recovery(2, 1)), BookKey).lastSeq = 2
    /\ MetaOf(DispatchAll(FreshStore, Recovery(2, 1)), BookKey).lastSeq = 3

(***************************************************************************)
(* C35                                                                     *)
(***************************************************************************)
\* the longest delivery tried
MaxDelivery == 3

\* the deliveries of the deltas s+1 .. s+k: each at least once, in any order
Deliveries(s, k) ==
    {[i \in 1..Len(order) |-> makeDelta(order[i])] :
        order \in {o \in UNION {[1..n -> (s + 1)..(s + k)] : n \in k..MaxDelivery} :
                      \A seq \in (s + 1)..(s + k) : \E i \in 1..Len(o) : o[i] = seq}}

\* the deltas s+1 .. s+k once, in ascending order
InOrderOnce(s, k) == [i \in 1..k |-> makeDelta(s + i)]

\* from store S, standing at s, every delivery of the deltas s+1 .. s+k ends
\* as the ascending delivery does, at s+k with an empty buffer
Converges(S, s, k) ==
    \A delivery \in Deliveries(s, k) :
        \A A \in {DispatchAll(S, delivery)} :
            /\ BookProjection(A) = BookProjection(DispatchAll(S, InOrderOnce(s, k)))
            /\ MetaOf(A, BookKey).lastSeq = s + k
            /\ BufferOf(A, BookKey) = <<>>

\* the dispatch just made applied a snapshot of the book and left the stream
\* at the snapshot's sequence with nothing buffered
SnapshotApplied ==
    /\ Called
    /\ Key = BookKey
    /\ Ev.event_type = "snapshot"
    /\ Ev.sequence <= MaxSeq
    /\ PostMeta.lastSeq = Ev.sequence
    /\ PostBuffer = <<>>

\* C35: once a snapshot at s has been applied, dispatching the deltas
\* s+1 .. s+k (few enough not to overflow the buffer), each at least once and
\* in any order, yields the projection of the ascending delivery, lastSeq =
\* s+k and an empty buffer.
C35_OrderInsensitive ==
    SnapshotApplied =>
        \A k \in 1..MAX_BUFFER_SIZE : Converges(Store, Ev.sequence, k)

\* what the code does: the claim holds of a store whose first event is the
\* snapshot
C35_OrderInsensitiveOnFreshStore ==
    ~Called =>
        \A s \in 1..MaxSeq : \A k \in 1..MAX_BUFFER_SIZE :
            Converges(DispatchAll(Store, <<makeSnapshot(s)>>), s, k)

\* the snapshot at 2 was applied onto a stream that holds the id of the
\* delta at 3: the delta dispatched next is ignored
C35_Witness ==
    /\ SnapshotApplied
    /\ Ev.sequence = 2
    /\ SeenHas(PostMeta.seenIds, EventId("delta", 3))
    /\ MetaOf(DispatchAll(Store, InOrderOnce(2, 1)), BookKey).lastSeq = 2

\* on a store whose first event is the snapshot at 1, the delivery 3, 3, 2
\* ends at 3 with an empty buffer
C35_WitnessFresh ==
    /\ ~Called
    /\ snapshotListeners # <<>>
    /\ MetaOf(DispatchAll(DispatchAll(Store, <<makeSnapshot(1)>>),
                          <<makeDelta(3), makeDelta(3), makeDelta(2)>>),
              BookKey).lastSeq = 3

(***************************************************************************)
(* C39                                                                     *)
(***************************************************************************)
\* an iteration of the flush loop on the event, with the stream at meta,
\* advances the index (duplicate, or the event at lastSeq + 1) or exits (gap)
Progresses(event, meta) ==
    \/ isDuplicate(event, meta)
    \/ compareSeq(event.sequence, meta.lastSeq + 1) = 0
    \/ compareSeq(event.sequence, meta.lastSeq + 1) > 0

\* C39: flushBuffer terminates for every reachable buffer content and
\* seqMeta: no flush met an entry on which the loop neither advances nor
\* exits, and no buffer holds such an entry, whatever sequence the stream
\* stands at or is set to by a snapshot.
C39_FlushTerminates ==
    /\ ~Out.hung
    /\ \A k \in DOMAIN deltaBuffers : \A i \in 1..Len(deltaBuffers[k]) :
           /\ deltaBuffers[k][i].event_type # "snapshot"
           /\ \A lastSeq \in 0..(HugeSeq + 2) :
                  Progresses(deltaBuffers[k][i],
                             [MetaOf(Store, k) EXCEPT !.lastSeq = lastSeq])

\* a flush met a buffered entry at or below the sequence of the snapshot that
\* started it, discarded it and emptied the buffer
C39_Witness ==
    /\ Flushed
    /\ Ev.event_type = "snapshot"
    /\ \E i \in 1..Len(PreBuffer) :
           /\ PreBuffer[i].sequence <= Ev.sequence
           /\ ~SeenHas(PostMeta.seenIds, PreBuffer[i].event_id)
    /\ PostBuffer = <<>>
    /\ ~Out.hung

(***************************************************************************)
(* C40                                                                     *)
(***************************************************************************)
\* the dispatch call asked for a snapshot without dropping the buffer
Requested == Called /\ Out.requests # <<>> /\ ~Overflows

\* C40: the sinceSeq handed to the onRequestSnapshot listeners equals the
\* recorded lastSeq of the stream exactly, above the range Number() represents
\* exactly as well.
C40_SinceSeqExact ==
    Requested => \A i \in 1..Len(Out.requests) : Out.requests[i].sinceSeq = PostMeta.lastSeq

\* what the code does: the listeners get Number(lastSeq)
C40_SinceSeqIsNumber ==
    Requested =>
        \A i \in 1..Len(Out.requests) : Out.requests[i].sinceSeq = NumberOf(PostMeta.lastSeq)

\* the comparisons are exact: above the threshold a delta is still told to be
\* a duplicate, in order or ahead by its sequence itself
C40_ComparisonsExact ==
    (Called /\ Ev.event_type = "delta" /\ ~SeenBefore) =>
        /\ Ev.sequence <= PreMeta.lastSeq => (Out.applied = <<>> /\ PostBuffer = PreBuffer)
        /\ Ev.sequence = PreMeta.lastSeq + 1 => (Out.applied # <<>> \/ Out.threw)
        /\ Ev.sequence > PreMeta.lastSeq + 1 => (Out.applied = <<>>)

\* a stream standing at the first sequence Number() rounds met a gap and
\* asked for a snapshot since the sequence below it
C40_Witness ==
    /\ Requested
    /\ PostMeta.lastSeq = HugeSeq
    /\ Ev.sequence = HugeSeq + 2
    /\ Out.requests[1].sinceSeq = HugeSeq - 1

(***************************************************************************)
(* C36                                                                     *)
(***************************************************************************)
\* the subscriptions of the client that are not the event's stream
OtherSubs(event) ==
    {i \in 1..Len(client.subscriptions) :
        ~(/\ client.subscriptions[i].key.channel = event.source
          /\ SymbolOf(client.subscriptions[i].key.params) = event.payload.symbol)}

\* the events of the streams the client is subscribed to
OwnedEvents ==
    {event \in WsEvents :
        \E i \in 1..Len(client.subscriptions) : i \notin OtherSubs(event)}

\* the event is the next one of its own subscription, or repeats an earlier one
InOrderForOwn(event) ==
    \E i \in 1..Len(client.subscriptions) :
        /\ i \notin OtherSubs(event)
        /\ event.sequence <= client.subscriptions[i].lastSeq + 1

\* the snapshot_since frames of world W on socket s for the subscription
RecoveryFrames(W, s, sub) ==
    {i \in 1..Len(W.sockets[s].sent) :
        /\ "action" \in DOMAIN W.sockets[s].sent[i]
        /\ W.sockets[s].sent[i].action = "snapshot_since"
        /\ W.sockets[s].sent[i].channel = sub.key.channel
        /\ W.sockets[s].sent[i].params = sub.key.params}

\* C36: the cursors of the transport are per subscription: an event of one
\* stream leaves the lastSeq of every other subscription as it was, sends no
\* snapshot_since for another subscription, and reaches the handlers whenever
\* it is in order for its own subscription.
C36_CursorsPerSubscription ==
    \A s \in Greeted : \A event \in OwnedEvents :
        \A W \in {received(s, event)} :
            /\ \A i \in OtherSubs(event) :
                   /\ W.c.subscriptions[i].lastSeq = client.subscriptions[i].lastSeq
                   /\ \A t \in 1..Len(sockets) :
                          RecoveryFrames(W, t, client.subscriptions[i])
                              = RecoveryFrames(World, t, client.subscriptions[i])
            /\ InOrderForOwn(event) => W.steps = steps + 1

\* the halves of the claim, one by one
C36_OtherCursorUntouched ==
    \A s \in Greeted : \A event \in OwnedEvents :
        \A i \in OtherSubs(event) :
            received(s, event).c.subscriptions[i].lastSeq = client.subscriptions[i].lastSeq

C36_NoRecoveryForOther ==
    \A s \in Greeted : \A event \in OwnedEvents :
        \A i \in OtherSubs(event) : \A t \in 1..Len(sockets) :
            RecoveryFrames(received(s, event), t, client.subscriptions[i])
                = RecoveryFrames(World, t, client.subscriptions[i])

C36_NotWithheldForOther ==
    \A s \in Greeted : \A event \in OwnedEvents :
        InOrderForOwn(event) => received(s, event).steps = steps + 1

\* both streams of the channel are subscribed at sequence 0 and the first
\* delta of ETH_USD moves the cursor of BTC_USD
C36_Witness ==
    \E s \in Greeted : \E i, j \in 1..Len(client.subscriptions) :
        /\ SymbolOf(client.subscriptions[i].key.params) = "BTC_USD"
        /\ SymbolOf(client.subscriptions[j].key.params) = "ETH_USD"
        /\ client.subscriptions[i].lastSeq = 0
        /\ received(s, makeDeltaOf("ETH_USD", 1)).c.subscriptions[i].lastSeq = 1

(***************************************************************************)
(* C37                                                                     *)
(***************************************************************************)
\* the sockets that are connecting or open
Live == {s \in 1..Len(sockets) : sockets[s].readyState \in {"CONNECTING", "OPEN"}}

\* the client has a current connection
CurrentLive == client.ws # 0 /\ client.ws \in Live

AtMostOneSocket == Cardinality(Live) <= 1

AtMostOneTimer == Len(timers) <= 1

\* the close callback of a socket that is not the current one leaves the
\* liveness timer of the current connection armed
EarlierCloseKeepsHeartbeat ==
    (CurrentLive /\ ClosedNow # {} /\ client.ws \notin ClosedNow)
        => client'.heartbeatTimer = client.heartbeatTimer

\* a reconnect timer that fires while the client has a connection starts no
\* further _connect()
EarlierTimerOpensNothing ==
    (CurrentLive /\ Len(timers') < Len(timers)) => Len(tokens') <= Len(tokens)

\* C37: under every interleaving of connect(), disconnect(), token
\* resolution, close callbacks and reconnect timers at most one socket is open
\* or connecting and at most one reconnect timer is pending; the close
\* callback or reconnect timer of an earlier connection opens no connection
\* next to the current one and does not disarm its liveness timer.
C37_OneConnection ==
    /\ [](AtMostOneSocket /\ AtMostOneTimer)
    /\ [][EarlierCloseKeepsHeartbeat /\ EarlierTimerOpensNothing]_vars

\* the parts of the claim, one by one
C37_AtMostOneSocket == AtMostOneSocket
C37_AtMostOneTimer == AtMostOneTimer
C37_EarlierCloseKeepsHeartbeat == [][EarlierCloseKeepsHeartbeat]_vars
C37_EarlierTimerOpensNothing == [][EarlierTimerOpensNothing]_vars

\* two calls of connect() have each opened a socket: both are live, and the
\* first is no longer the client's
C37_Witness ==
    /\ Cardinality(Live) = 2
    /\ client.ws = 2
    /\ timers = <<>>

\* the current connection is greeted and its liveness timer armed while an
\* earlier socket is still open
C37_WitnessHeartbeat ==
    /\ Live = {1, 2}
    /\ client.ws = 2
    /\ sockets[2].greeted
    /\ client.heartbeatTimer

(***************************************************************************)
(* C38                                                                     *)
(***************************************************************************)
\* the snapshot_since frames sent on socket s that the server has not answered
Outstanding(s) == SentFrames(s, "snapshot_since") \ sockets[s].answered

\* C38: whenever recovering is true, a snapshot_since frame has been sent on
\* the current connection and its response is outstanding: the flag is not
\* true after the request was dropped because the socket was not open, nor
\* after the connection closed.
C38_RecoveringMeansOutstanding ==
    client.recovering =>
        /\ client.ws # 0
        /\ sockets[client.ws].readyState = "OPEN"
        /\ Outstanding(client.ws) # {}

\* the halves of the claim, one by one: the flag is not true with the
\* connection closed; it is not true without a request sent on any socket
C38_NotAfterClose ==
    client.recovering => (client.ws # 0 /\ sockets[client.ws].readyState = "OPEN")

C38_NotAfterDrop ==
    client.recovering =>
        \E s \in 1..Len(sockets) : SentFrames(s, "snapshot_since") # {}

\* the connection that carried the request has closed and the flag is still set
C38_Witness ==
    /\ client.recovering
    /\ client.ws # 0
    /\ sockets[client.ws].readyState = "CLOSED"
    /\ Outstanding(client.ws) # {}

\* the flag is set and no request was ever sent
C38_WitnessDropped ==
    /\ client.recovering
    /\ \A s \in 1..Len(sockets) : SentFrames(s, "snapshot_since") = {}

====
